---- MODULE Spec2Model ----
(***************************************************************************)
(* The text-chunking / keyword-retrieval pipeline of the research          *)
(* assistant: chunkText and ingestPDFs (scripts/ingest-pdf.js) and         *)
(* retrieveContext (utils/rag.ts).                                         *)
(*                                                                         *)
(* Strings.  A JavaScript string is modelled by its run-length encoding: a *)
(* sequence of runs [c |-> character, n |-> repetitions >= 1] in which no  *)
(* two neighbouring runs have the same character.  The encoding is         *)
(* canonical, so equality of encodings is equality of strings, and it lets *)
(* the model keep the program's real size constants (50, 800) while the    *)
(* inputs stay small.  Every string operation below is the JavaScript      *)
(* operation computed on that encoding.                                    *)
(***************************************************************************)
EXTENDS Integers, Sequences, FiniteSets, TLC

VARIABLES
    \* ---- one call of chunkText (scripts/ingest-pdf.js) ----
    ctText,         \* argument text
    ctMax,          \* argument maxChunkSize
    ctChunks,       \* the local array chunks when the loop has ended (line 44)
    ctReturn,       \* the returned array (line 46)
    ctPc,           \* "idle" | "call" | "returned"
    ctCalls,        \* calls of chunkText made so far
    ctLog,          \* arguments and result of every call that returned, in order
    \* ---- one call of retrieveContext (utils/rag.ts) ----
    knowledgeBase,  \* the imported knowledge_base.json
    query,          \* argument query
    rcTopMatches,   \* the local topMatches (line 42)
    rcReturn,       \* the string the promise resolves to
    rcWarnings,     \* number of console.warn calls
    rcPc,           \* "idle" | "ready" | "call" | "returned"
    rcCalls,        \* calls of retrieveContext made so far
    \* ---- the ingestion script (scripts/ingest-pdf.js) and its files ----
    pdfParseLoads,  \* whether import('pdf-parse') succeeds
    dirExists,      \* whether data/pdf exists
    dirEntries,     \* the entries of data/pdf, in readdirSync order
    kbFile,         \* the records stored in utils/knowledge_base.json
    kbHistory,      \* every content that file has held, oldest first
    pc,             \* "off" | "idle" | "import" | "checkDir" | "list" | "loop"
    outcome,        \* how the last run ended, "running" during a run
    files,          \* the local files
    fileIdx,        \* position of the for loop in files
    ingKnowledgeBase, \* the local knowledgeBase
    chunkId,        \* the local chunkId
    errors,         \* the files whose processing error was logged, in order
    nWrites,        \* calls of writeFileSync in the current run
    runs            \* runs of the script started so far

VARIABLES
    \* ---- one request to the SSE route (app/api/stream/route.ts) ----
    sseRequest,     \* the parsed request body
    ssePc,          \* "off" | "received" | "fetching" | "streaming" | "closed"
                    \*   | "rejected"
    sseStatus,      \* the status of the HTTP response, 0 before there is one
    sseBody,        \* the error of a JSON response, "" when there is none
    sseBackend,     \* what the backend call gave
    sseBackendCalls, \* calls of fetch made
    sseEvents,      \* the events enqueued on the stream, in order
    sseAccumulated, \* the local accumulatedContent
    sseIdx,         \* number of characters the loop has handled
    sseClosed       \* whether controller.close() was called

ctVars == <<ctText, ctMax, ctChunks, ctReturn, ctPc, ctCalls, ctLog>>

rcVars == <<knowledgeBase, query, rcTopMatches, rcReturn, rcWarnings, rcPc,
            rcCalls>>

ingVars == <<pdfParseLoads, dirExists, dirEntries, kbFile, kbHistory, pc, outcome, files,
             fileIdx, ingKnowledgeBase, chunkId, errors, nWrites, runs>>

\* generateResponse: its onStream argument, position, attempt index, number of
\* model invocations, delays awaited, last error caught, value returned and
\* whether an exception left the call
VARIABLES
    grOnStream,
    grPc,
    grAttempt,
    grCalls,
    grWaits,
    grError,
    grReturn,
    grThrew

grVars == <<grOnStream, grPc, grAttempt, grCalls, grWaits, grError, grReturn, grThrew>>

\* the chat API handler: the requests received so far, each with its position
\* in the handler and its response, and the responseCache
VARIABLES
    chRequests,
    chCache

chVars == <<chRequests, chCache>>

\* the PDF loader: the data/pdf directory, cachedDocuments, loadingPromise
\* (the index of the promise, 0 for null), the promises created by loads, the
\* number of calls of loadPDFDocuments, and the callers of getPDFDocuments
VARIABLES
    pdDirectory,
    cachedDocuments,
    loadingPromise,
    pdPromises,
    pdLoadCalls,
    pdCallers

pdVars == <<pdDirectory, cachedDocuments, loadingPromise, pdPromises, pdLoadCalls,
            pdCallers>>

\* the chat client: the arguments of the sendMessage call, its position, the
\* React state isThinking and thinkingConvId, the messages of the conversation,
\* whether the request was aborted, what was thrown inside the try block, the
\* content accumulated from the stream and the number of reads
VARIABLES
    clConvId,
    clContent,
    clPc,
    isThinking,
    thinkingConvId,
    clMessages,
    clAborted,
    clThrown,
    accumulatedChunks,
    clReads

clVars == <<clConvId, clContent, clPc, isThinking, thinkingConvId, clMessages,
            clAborted, clThrown, accumulatedChunks, clReads>>

sseVars == <<sseRequest, ssePc, sseStatus, sseBody, sseBackend, sseBackendCalls,
             sseEvents, sseAccumulated, sseIdx, sseClosed>>

\* the variables of the chat API, its relay and its client
apiVars == <<sseVars, grVars, chVars, pdVars, clVars>>

\* what a step of one component leaves alone
notSse == <<ctVars, rcVars, ingVars, grVars, chVars, pdVars, clVars>>
notGr == <<ctVars, rcVars, ingVars, sseVars, chVars, pdVars, clVars>>
notCh == <<ctVars, rcVars, ingVars, sseVars, grVars, pdVars, clVars>>
notPd == <<ctVars, rcVars, ingVars, sseVars, grVars, chVars, clVars>>
notCl == <<ctVars, rcVars, ingVars, sseVars, grVars, chVars, pdVars>>

vars == <<ctVars, rcVars, ingVars, apiVars>>

\* no call of chunkText in this behaviour
ctIdle ==
    /\ ctText = <<>> /\ ctMax = 0 /\ ctChunks = <<>> /\ ctReturn = <<>>
    /\ ctPc = "idle" /\ ctCalls = 0 /\ ctLog = <<>>

\* no call of retrieveContext in this behaviour
rcIdle ==
    /\ knowledgeBase = <<>> /\ query = <<>> /\ rcTopMatches = <<>>
    /\ rcReturn = <<>> /\ rcWarnings = 0 /\ rcPc = "idle" /\ rcCalls = 0


\* no run of the ingestion script in this behaviour
ingIdle ==
    /\ pdfParseLoads = TRUE /\ dirExists = TRUE /\ dirEntries = <<>>
    /\ kbFile = <<>> /\ kbHistory = <<>> /\ pc = "off" /\ outcome = "none"
    /\ files = <<>>
    /\ fileIdx = 0 /\ ingKnowledgeBase = <<>> /\ chunkId = 0 /\ errors = <<>>
    /\ nWrites = 0 /\ runs = 0

\* no request to the SSE route in this behaviour
sseIdle ==
    /\ sseRequest = <<>> /\ ssePc = "off" /\ sseStatus = 0 /\ sseBody = ""
    /\ sseBackend = <<>> /\ sseBackendCalls = 0 /\ sseEvents = <<>>
    /\ sseAccumulated = <<>> /\ sseIdx = 0 /\ sseClosed = FALSE

\* no call of generateResponse in this behaviour
grIdle ==
    /\ grOnStream = FALSE
    /\ grPc = "off"
    /\ grAttempt = 0
    /\ grCalls = 0
    /\ grWaits = <<>>
    /\ grError = <<>>
    /\ grReturn = ""
    /\ grThrew = FALSE

\* no request to the chat API in this behaviour
chIdle ==
    /\ chRequests = <<>>
    /\ chCache = {}

\* null, the initial value of cachedDocuments
NullDocuments == [isNull |-> TRUE, id |-> 0, docs |-> <<>>]

\* no call of getPDFDocuments in this behaviour
pdIdle ==
    /\ pdDirectory = <<>>
    /\ cachedDocuments = NullDocuments
    /\ loadingPromise = 0
    /\ pdPromises = <<>>
    /\ pdLoadCalls = 0
    /\ pdCallers = <<>>

\* no call of sendMessage in this behaviour
clIdle ==
    /\ clConvId = "" /\ clContent = <<>> /\ clPc = "off"
    /\ isThinking = FALSE /\ thinkingConvId = "null" /\ clMessages = <<>>
    /\ clAborted = FALSE /\ clThrown = "" /\ accumulatedChunks = "" /\ clReads = 0

apiIdle == sseIdle /\ grIdle /\ chIdle /\ pdIdle /\ clIdle

----------------------------------------------------------------------------
(* Bounds of the model's inputs *)

\* longest input text of a chunkText call, in runs
MaxTextRuns == 4

\* longest knowledge base of a retrieveContext call, in chunks
MaxKnowledgeBase == 6

\* longest query of a retrieveContext call, in runs
MaxQueryRuns == 3

\* most entries of the directory data/pdf
MaxDirEntries == 3

\* most runs of the ingestion script in one behaviour
MaxIngestRuns == 2

----------------------------------------------------------------------------
(* Strings *)

Run(c, n) == [c |-> c, n |-> n]

Range(f) == {f[i] : i \in DOMAIN f}

EmptyStr == <<>>

\* s.length
RECURSIVE Length(_)
Length(s) == IF s = <<>> THEN 0 ELSE Head(s).n + Length(Tail(s))

\* s + t
Cat(s, t) ==
    IF s = <<>> THEN t
    ELSE IF t = <<>> THEN s
    ELSE IF s[Len(s)].c = Head(t).c
         THEN SubSeq(s, 1, Len(s) - 1)
                \o <<Run(Head(t).c, s[Len(s)].n + Head(t).n)>>
                \o Tail(t)
         ELSE s \o t

\* the characters String.prototype.trim removes and the regex class \s matches
IsWhitespace(c) == c \in {" ", "\n", "\t"}

RECURSIVE TrimStart(_)
TrimStart(s) ==
    IF s # <<>> /\ IsWhitespace(Head(s).c) THEN TrimStart(Tail(s)) ELSE s

RECURSIVE TrimEnd(_)
TrimEnd(s) ==
    IF s # <<>> /\ IsWhitespace(s[Len(s)].c)
    THEN TrimEnd(SubSeq(s, 1, Len(s) - 1))
    ELSE s

\* s.trim()
Trim(s) == TrimEnd(TrimStart(s))

\* s.split(re) for a regex re that matches the maximal groups of characters of
\* sepChars of at least minLen characters: /\n\n+/ is ({"\n"}, 2), /[.!?]+/ is
\* ({".", "!", "?"}, 1), /\s+/ is (whitespace, 1).  A class matched with
\* minLen > 1 has one character, so that a group is one run.
RECURSIVE SplitFrom(_, _, _, _, _)
SplitFrom(s, sepChars, minLen, pieces, prevSep) ==
    IF s = <<>> THEN pieces
    ELSE LET r == Head(s) IN
         IF r.c \in sepChars /\ r.n >= minLen
         THEN SplitFrom(Tail(s), sepChars, minLen,
                        IF prevSep THEN pieces ELSE Append(pieces, <<>>), TRUE)
         ELSE SplitFrom(Tail(s), sepChars, minLen,
                        [pieces EXCEPT ![Len(pieces)] = Append(@, r)], FALSE)

Split(s, sepChars, minLen) == SplitFrom(s, sepChars, minLen, << <<>> >>, FALSE)

\* the encoding of the string whose runs are s, neighbours of one character merged
RECURSIVE Normalize(_)
Normalize(s) == IF s = <<>> THEN <<>> ELSE Cat(<<Head(s)>>, Normalize(Tail(s)))

\* The letters with an upper and a lower case: the Latin letters and the
\* Vietnamese D with stroke.  A Vietnamese letter is one character, named by
\* its base letter and its marks: "y-grave", "o-circ-acute", "a-dot" (dot
\* below), "e-circ-hook" (circumflex and hook above), "d-stroke".
UpperChars ==
    <<"A", "B", "C", "D", "E", "F", "G", "H", "I", "J", "K", "L", "M", "N",
      "O", "P", "Q", "R", "S", "T", "U", "V", "W", "X", "Y", "Z", "D-stroke">>

LowerChars ==
    <<"a", "b", "c", "d", "e", "f", "g", "h", "i", "j", "k", "l", "m", "n",
      "o", "p", "q", "r", "s", "t", "u", "v", "w", "x", "y", "z", "d-stroke">>

\* c.toLowerCase() for one character
LowerChar(c) ==
    IF \E i \in 1..Len(UpperChars) : UpperChars[i] = c
    THEN LowerChars[CHOOSE i \in 1..Len(UpperChars) : UpperChars[i] = c]
    ELSE c

\* s.toLowerCase()
toLowerCase(s) == Normalize([i \in 1..Len(s) |-> Run(LowerChar(s[i].c), s[i].n)])

\* s.includes(k): k starts inside or at the start of a run of s, covers whole
\* runs of s, and ends inside or at the end of a run of s
includes(s, k) ==
    IF k = <<>> THEN TRUE
    ELSE IF Len(k) = 1
    THEN \E i \in 1..Len(s) : s[i].c = k[1].c /\ s[i].n >= k[1].n
    ELSE \E i \in 1..(Len(s) - Len(k) + 1) :
            /\ s[i].c = k[1].c /\ s[i].n >= k[1].n
            /\ \A j \in 2..(Len(k) - 1) : s[i + j - 1] = k[j]
            /\ s[i + Len(k) - 1].c = k[Len(k)].c
            /\ s[i + Len(k) - 1].n >= k[Len(k)].n

\* strs.join(sep)
RECURSIVE join(_, _)
join(strs, sep) ==
    IF strs = <<>> THEN <<>>
    ELSE IF Len(strs) = 1 THEN Head(strs)
    ELSE Cat(Cat(Head(strs), sep), join(Tail(strs), sep))

\* the decimal digits of a number n >= 0, as a template literal `${n}` writes it
DigitChars == <<"0", "1", "2", "3", "4", "5", "6", "7", "8", "9">>

RECURSIVE ToDecimal(_)
ToDecimal(n) ==
    IF n < 10 THEN <<Run(DigitChars[n + 1], 1)>>
    ELSE Cat(ToDecimal(n \div 10), <<Run(DigitChars[(n % 10) + 1], 1)>>)

\* a file name: base is the name without extension, ext the extension
FileName(base, ext) == [base |-> base, ext |-> ext]

----------------------------------------------------------------------------
(* chunkText *)

\* the default of the parameter maxChunkSize
DefaultMaxChunkSize == 800

\* chunks shorter than or as long as this are filtered out
MinChunkLength == 50

\* text.split(/\n\n+/)
SplitParagraphs(text) == Split(text, {"\n"}, 2)

SentenceTerminators == {".", "!", "?"}

\* paragraph.split(/[.!?]+/)
SplitSentences(paragraph) == Split(paragraph, SentenceTerminators, 1)

\* the literals '. ' and '\n\n'
DotSpace == <<Run(".", 1), Run(" ", 1)>>
TwoNewlines == <<Run("\n", 2)>>

\* chunks.push(currentChunk.trim()); currentChunk = ''
Flush(st) ==
    [chunks |-> Append(st.chunks, Trim(st.currentChunk)), currentChunk |-> <<>>]

\* the guard of both flushes
MustFlush(st, piece, maxChunkSize) ==
    /\ Length(st.currentChunk) + Length(piece) > maxChunkSize
    /\ Length(st.currentChunk) > 0

\* mutant of SentenceStep: a sentence longer than maxChunkSize is cut to
\* sentence.slice(0, maxChunkSize)
SentenceStepCut(st, sentence, maxChunkSize) ==
    LET RECURSIVE slice(_, _)
        slice(str, n) ==
            IF n <= 0 \/ str = <<>> THEN <<>>
            ELSE IF Head(str).n <= n
                 THEN <<Head(str)>> \o slice(Tail(str), n - Head(str).n)
                 ELSE <<Run(Head(str).c, n)>>
        cut == slice(sentence, maxChunkSize)
        st1 == IF MustFlush(st, cut, maxChunkSize) THEN Flush(st) ELSE st
    IN  [st1 EXCEPT !.currentChunk = Cat(Cat(@, cut), DotSpace)]

\* one iteration of the loop over sentences
SentenceStep(st, sentence, maxChunkSize) ==
    LET st1 == IF MustFlush(st, sentence, maxChunkSize) THEN Flush(st) ELSE st
    IN  [st1 EXCEPT !.currentChunk = Cat(Cat(@, sentence), DotSpace)]

RECURSIVE SentenceLoop(_, _, _)
SentenceLoop(st, sentences, maxChunkSize) ==
    IF sentences = <<>> THEN st
    ELSE SentenceLoop(SentenceStep(st, Head(sentences), maxChunkSize),
                      Tail(sentences), maxChunkSize)

\* one iteration of the loop over paragraphs
ParagraphStep(st, paragraph, maxChunkSize) ==
    LET st1 == IF MustFlush(st, paragraph, maxChunkSize) THEN Flush(st) ELSE st
    IN  IF Length(paragraph) > maxChunkSize
        THEN SentenceLoop(st1, SplitSentences(paragraph), maxChunkSize)
        ELSE [st1 EXCEPT !.currentChunk = Cat(Cat(@, paragraph), TwoNewlines)]

RECURSIVE ParagraphLoop(_, _, _)
ParagraphLoop(st, paragraphs, maxChunkSize) ==
    IF paragraphs = <<>> THEN st
    ELSE ParagraphLoop(ParagraphStep(st, Head(paragraphs), maxChunkSize),
                       Tail(paragraphs), maxChunkSize)

\* mutant of ChunkerStart: the array chunks lives outside the function and
\* keeps what the previous call left in it
ChunkerStartKept == [chunks |-> ctChunks, currentChunk |-> <<>>]

\* const chunks = []; let currentChunk = '': the locals every call starts from
ChunkerStart == [chunks |-> <<>>, currentChunk |-> <<>>]

\* the array chunks before the final filter
ChunksBeforeFilter(text, maxChunkSize) ==
    LET st == ParagraphLoop(ChunkerStart,
                            SplitParagraphs(text), maxChunkSize)
    IN  IF Length(Trim(st.currentChunk)) > 0
        THEN Append(st.chunks, Trim(st.currentChunk))
        ELSE st.chunks

\* mutant of KeepChunk: only empty chunks are filtered out
KeepChunkNonEmpty(chunk) == Length(chunk) > 0

\* mutant of KeepChunk: the comparison is >= instead of >
KeepChunkInclusive(chunk) == Length(chunk) >= MinChunkLength

\* chunk => chunk.length > 50
KeepChunk(chunk) == Length(chunk) > MinChunkLength

RECURSIVE FilterChunks(_)
FilterChunks(chunks) ==
    IF chunks = <<>> THEN <<>>
    ELSE IF KeepChunk(Head(chunks))
         THEN <<Head(chunks)>> \o FilterChunks(Tail(chunks))
         ELSE FilterChunks(Tail(chunks))

chunkText(text, maxChunkSize) == FilterChunks(ChunksBeforeFilter(text, maxChunkSize))

----------------------------------------------------------------------------
(* Inputs of a chunkText call *)

\* the runs input texts are made of
TextRuns ==
    {Run("a", n) : n \in {1, 2, 50}}
        \cup {Run(".", n) : n \in {1, 2}}
        \cup {Run("!", 1), Run(" ", 1)}
        \cup {Run("\n", n) : n \in {1, 2}}

IsNormal(s) == \A i \in 1..(Len(s) - 1) : s[i].c # s[i + 1].c

SeqsUpTo(S, k) == UNION {[1..n -> S] : n \in 0..k}

Texts == {s \in SeqsUpTo(TextRuns, MaxTextRuns) : IsNormal(s)}

\* the string of the given characters
Str(chars) == Normalize([i \in 1..Len(chars) |-> Run(chars[i], 1)])

\* the two paragraphs of the worked example: "Paragraph one." and
\* "Paragraph two is a bit longer than usual for this test."
ParagraphOne ==
    Str(
        <<"P", "a", "r", "a", "g", "r", "a", "p", "h", " ", "o", "n", "e",
          ".">>)

ParagraphTwo ==
    Str(
        <<"P", "a", "r", "a", "g", "r", "a", "p", "h", " ", "t", "w", "o",
          " ", "i", "s", " ", "a", " ", "b", "i", "t", " ", "l", "o", "n",
          "g", "e", "r", " ", "t", "h", "a", "n", " ", "u", "s", "u", "a",
          "l", " ", "f", "o", "r", " ", "t", "h", "i", "s", " ", "t", "e",
          "s", "t", ".">>)

\* the example's text: the two paragraphs with a blank line between them
TwoParagraphs == Cat(Cat(ParagraphOne, TwoNewlines), ParagraphTwo)

\* values of maxChunkSize: small ones, one around the length filter, the default
MaxChunkSizes == {2, 4, 52, DefaultMaxChunkSize}

InitChunk ==
    /\ rcIdle
    /\ apiIdle
    /\ ingIdle
    /\ \/ ctText \in Texts /\ ctMax \in MaxChunkSizes
       \/ ctText = TwoParagraphs /\ ctMax = 40
    /\ ctChunks = <<>>
    /\ ctReturn = <<>>
    /\ ctPc = "call"
    /\ ctCalls = 1
    /\ ctLog = <<>>

\* chunkText(text, maxChunkSize), from the call to the return
CallChunkText ==
    /\ ctPc = "call"
    /\ ctChunks' = ChunksBeforeFilter(ctText, ctMax)
    /\ ctReturn' = chunkText(ctText, ctMax)
    /\ ctLog' = Append(ctLog, [text |-> ctText, maxChunkSize |-> ctMax,
                               return |-> chunkText(ctText, ctMax)])
    /\ ctPc' = "returned"
    /\ UNCHANGED <<ctText, ctMax, ctCalls, rcVars, ingVars, apiVars>>

NextChunk == CallChunkText

SpecChunk == InitChunk /\ [][NextChunk]_vars

----------------------------------------------------------------------------
(* Several calls of chunkText, one after the other, as the loop over the   *)
(* files of ingestPDFs makes them                                          *)

\* calls in one behaviour
MaxChunkCalls == 3

\* the texts and sizes of these calls: nothing, one short chunk, one chunk,
\* a paragraph split at its sentences, several chunks
CallTexts ==
    {EmptyStr, <<Run("a", 10)>>, <<Run("a", 60)>>,
     <<Run("a", 50), Run(".", 1), Run("a", 2), Run("!", 1), Run("a", 50)>>,
     <<Run("b", 500), Run("\n", 2), Run("a", 500), Run("\n", 2), Run("b", 500)>>}

CallSizes == {4, DefaultMaxChunkSize}

InitChunkCalls ==
    /\ rcIdle
    /\ apiIdle
    /\ ingIdle
    /\ ctText \in CallTexts
    /\ ctMax \in CallSizes
    /\ ctChunks = <<>>
    /\ ctReturn = <<>>
    /\ ctPc = "call"
    /\ ctCalls = 1
    /\ ctLog = <<>>

\* the next call, after the previous one has returned
CallAgain ==
    /\ ctPc = "returned"
    /\ ctCalls < MaxChunkCalls
    /\ ctText' \in CallTexts
    /\ ctMax' \in CallSizes
    /\ ctCalls' = ctCalls + 1
    /\ ctPc' = "call"
    /\ UNCHANGED <<ctChunks, ctReturn, ctLog, rcVars, ingVars, apiVars>>

NextChunkCalls == CallChunkText \/ CallAgain

SpecChunkCalls == InitChunkCalls /\ [][NextChunkCalls]_vars

----------------------------------------------------------------------------
(* retrieveContext *)

\* keywords are the words longer than this
MinKeywordLength == 2

\* at most this many chunks are returned
MaxMatches == 5

WhitespaceChars == {" ", "\n", "\t"}

\* mutant of KnowledgeBaseIsEmpty: the test never succeeds
KnowledgeBaseIsEmptyNever(kb) == Len(kb) < 0

\* knowledgeBase.length === 0
KnowledgeBaseIsEmpty(kb) == Len(kb) = 0

\* mutant of IsKeyword: words must be longer than 3
IsKeywordLonger(word) == Length(word) > MinKeywordLength + 1

\* word => word.length > 2
IsKeyword(word) == Length(word) > MinKeywordLength

\* queryLower.split(/\s+/).filter(word => word.length > 2)
Keywords(queryLower) == SelectSeq(Split(queryLower, WhitespaceChars, 1), IsKeyword)

\* mutant of HasMatch: only the first keyword is tested
HasMatchFirst(docLower, keywords) ==
    keywords # <<>> /\ includes(docLower, keywords[1])

\* mutant of HasMatch: keywords.every instead of keywords.some
HasMatchEvery(docLower, keywords) ==
    \A i \in 1..Len(keywords) : includes(docLower, keywords[i])

\* keywords.some(keyword => docLower.includes(keyword))
HasMatch(docLower, keywords) ==
    \E i \in 1..Len(keywords) : includes(docLower, keywords[i])

\* mutant of DocLower: the content is compared as it is stored
DocLowerAsStored(doc) == doc.content

\* const docLower = doc.content.toLowerCase()
DocLower(doc) == toLowerCase(doc.content)

\* mutant of MatchingDocs: matchingDocs.unshift(doc) instead of push, the
\* matches come out newest first
MatchingDocsUnshift(kb, q) ==
    LET queryLower == toLowerCase(q)
        found == SelectSeq(kb, LAMBDA doc :
                        HasMatch(toLowerCase(doc.content), Keywords(queryLower)))
    IN  [i \in 1..Len(found) |-> found[Len(found) + 1 - i]]

\* the loop over the knowledge base: the array matchingDocs after it
MatchingDocs(kb, q) ==
    LET queryLower == toLowerCase(q)
    IN  SelectSeq(kb, LAMBDA doc : HasMatch(DocLower(doc), Keywords(queryLower)))

\* mutant of TopMatches: the slice is missing
TopMatchesNoLimit(matchingDocs) == matchingDocs

\* mutant of TopMatches: matchingDocs.slice(-5), the last 5
TopMatchesLast(matchingDocs) ==
    SubSeq(matchingDocs,
           IF Len(matchingDocs) < MaxMatches THEN 1
           ELSE Len(matchingDocs) - MaxMatches + 1,
           Len(matchingDocs))

\* matchingDocs.slice(0, 5)
TopMatches(matchingDocs) ==
    SubSeq(matchingDocs, 1, IF Len(matchingDocs) < MaxMatches
                            THEN Len(matchingDocs) ELSE MaxMatches)

\* mutant of KnowledgeBaseAfterCall: the matches are filtered in place, the
\* imported array keeps only them
KnowledgeBaseFilteredInPlace(kb, q) == MatchingDocs(kb, q)

\* the imported array after a call: the call reads it with length, for...of,
\* and builds its own arrays (matchingDocs, slice, map), it assigns to no
\* element and calls no mutating method
KnowledgeBaseAfterCall(kb, q) == kb

\* mutant of JoinContents: the separator is one line break
JoinContentsOneNewline(topMatches) ==
    join([i \in 1..Len(topMatches) |-> topMatches[i].content], <<Run("\n", 1)>>)

\* topMatches.map(doc => doc.content).join("\n\n")
JoinContents(topMatches) ==
    join([i \in 1..Len(topMatches) |-> topMatches[i].content], TwoNewlines)

\* the string retrieveContext(query) resolves to, over the imported array kb
retrieveContext(kb, q) ==
    IF KnowledgeBaseIsEmpty(kb) THEN EmptyStr
    ELSE JoinContents(TopMatches(MatchingDocs(kb, q)))

----------------------------------------------------------------------------
(* Inputs of a retrieveContext call *)

\* the contents of the chunks of a knowledge base: "AAa" and "bbb"
KbContents == {<<Run("A", 2), Run("a", 1)>>, <<Run("b", 3)>>}

\* a knowledge base with these contents, ids "1", "2", ... as ingestion writes
KbOf(contents) ==
    [i \in 1..Len(contents) |->
        [id |-> ToDecimal(i), source |-> FileName(1, "pdf"), content |-> contents[i]]]

KnowledgeBases == {KbOf(cs) : cs \in SeqsUpTo(KbContents, MaxKnowledgeBase)}

\* the worked example: the chunks "Ky thi THPT Quoc gia dien ra vao thang 6."
\* and "Diem chuan dai hoc cong bo sau ky thi." and the query "ky thi",
\* written in this comment without their marks; the y with grave of the
\* query is one precomposed character, or a y and a combining grave accent
ExampleChunkOne ==
    Str(
        <<"K", "y-grave", " ", "t", "h", "i", " ", "T", "H", "P", "T", " ", "Q",
          "u", "o-circ-acute", "c", " ", "g", "i", "a", " ", "d", "i", "e-circ-tilde", "n",
          " ", "r", "a", " ", "v", "a-grave", "o", " ", "t", "h", "a-acute", "n",
          "g", " ", "6", ".">>)

ExampleChunkTwo ==
    Str(
        <<"D-stroke", "i", "e-circ-hook", "m", " ", "c", "h", "u", "a-circ-hook", "n", " ", "d-stroke",
          "a-dot", "i", " ", "h", "o-dot", "c", " ", "c", "o-circ", "n", "g", " ",
          "b", "o-circ-acute", " ", "s", "a", "u", " ", "k", "y-grave", " ", "t", "h",
          "i", ".">>)

ExampleKnowledgeBase == KbOf(<<ExampleChunkOne, ExampleChunkTwo>>)

ExampleQueries ==
    {Str(<<"k", "y-grave", " ", "t", "h", "i">>),
     Str(<<"k", "y", "comb-grave", " ", "t", "h", "i">>)}

\* chunks with the letters c, a, t at the start, in the middle and at the end
\* of longer words, in either case, and a chunk without them; queries with
\* these letters in either case
WordKnowledgeBase ==
    KbOf(<<Str(<<"A", " ", "C", "a", "t", "e", "g", "o", "r", "y">>),
           Str(<<"c", "o", "n", "C", "A", "T", "e", "n", "a", "t", "e">>),
           Str(<<"a", " ", "d", "o", "g">>),
           Str(<<"t", "o", "m", "c", "a", "t", ".">>)>>)

WordQueries ==
    {Str(<<"c", "a", "t">>), Str(<<"C", "A", "T">>), Str(<<"C", "a", "t">>),
     Str(<<"t", "h", "e", " ", "D", "O", "G">>)}

\* the runs queries are made of
QueryRuns == {Run("a", 2), Run("a", 3), Run("B", 3), Run(" ", 1)}

Queries == {s \in SeqsUpTo(QueryRuns, MaxQueryRuns) : IsNormal(s)}

InitRetrieve ==
    /\ ctIdle
    /\ apiIdle
    /\ ingIdle
    /\ \/ knowledgeBase \in KnowledgeBases /\ query \in Queries
       \/ knowledgeBase = ExampleKnowledgeBase /\ query \in ExampleQueries
       \/ knowledgeBase = WordKnowledgeBase /\ query \in WordQueries
    /\ rcTopMatches = <<>>
    /\ rcReturn = <<>>
    /\ rcWarnings = 0
    /\ rcPc = "call"
    /\ rcCalls = 1

\* retrieveContext(query)
CallRetrieveContext ==
    /\ rcPc = "call"
    /\ \/ /\ KnowledgeBaseIsEmpty(knowledgeBase)
          /\ rcWarnings' = rcWarnings + 1
          /\ rcTopMatches' = <<>>
          /\ rcReturn' = EmptyStr
       \/ /\ ~KnowledgeBaseIsEmpty(knowledgeBase)
          /\ rcWarnings' = rcWarnings
          /\ rcTopMatches' = TopMatches(MatchingDocs(knowledgeBase, query))
          /\ rcReturn' = JoinContents(TopMatches(MatchingDocs(knowledgeBase, query)))
    /\ knowledgeBase' = KnowledgeBaseAfterCall(knowledgeBase, query)
    /\ rcPc' = "returned"
    /\ UNCHANGED <<query, rcCalls, ctVars, ingVars, apiVars>>

NextRetrieve == CallRetrieveContext

SpecRetrieve == InitRetrieve /\ [][NextRetrieve]_vars

----------------------------------------------------------------------------
(* ingestPDFs *)

\* f => f.endsWith('.pdf')
EndsWithPdf(name) == name.ext = "pdf"

\* fs.readdirSync(pdfDir).filter(f => f.endsWith('.pdf'))
PdfFiles(entries) ==
    LET pdfs == SelectSeq(entries, LAMBDA e : EndsWithPdf(e.name))
    IN  [i \in 1..Len(pdfs) |-> pdfs[i].name]

\* the directory entry of a file name
EntryOf(entries, name) == CHOOSE e \in Range(entries) : e.name = name

\* fs.readFileSync and pdfParse: the document's text, or an exception
Extract(entry) ==
    IF entry.status = "ok"
    THEN [threw |-> FALSE, text |-> entry.text]
    ELSE [threw |-> TRUE, text |-> EmptyStr]

\* the record pushed for one chunk
ChunkRecord(id, file, chunk) ==
    [id |-> ToDecimal(id), source |-> file, content |-> chunk]

\* mutant of PushChunks: the chunks of a document are pushed last to first
PushChunksBackwards(kb, id, file, chunks) ==
    [knowledgeBase |->
        kb \o [i \in 1..Len(chunks) |->
                  ChunkRecord(id + i - 1, file, chunks[Len(chunks) + 1 - i])],
     chunkId |-> id + Len(chunks)]

\* mutant of PushChunks: chunkId is incremented once per document
PushChunksIdPerFile(kb, id, file, chunks) ==
    [knowledgeBase |-> kb \o [i \in 1..Len(chunks) |-> ChunkRecord(id, file, chunks[i])],
     chunkId |-> id + 1]

\* the loop over the chunks of one document: the knowledge base and chunkId
\* after it
RECURSIVE PushChunks(_, _, _, _)
PushChunks(kb, id, file, chunks) ==
    IF chunks = <<>> THEN [knowledgeBase |-> kb, chunkId |-> id]
    ELSE PushChunks(Append(kb, ChunkRecord(id, file, Head(chunks))), id + 1,
                    file, Tail(chunks))

\* mutant of IndexAfterError: the error ends the loop
IndexAfterErrorBreak(idx, nFiles) == nFiles + 1

\* the position of the loop over files after an iteration whose body threw:
\* the catch block logs and the loop goes on with the next file
IndexAfterError(idx, nFiles) == idx + 1

\* mutant of LoopFinished: the loop is left after the first document
LoopFinishedAfterFirst(idx, nFiles) == idx > 1

\* the loop over files has no file left
LoopFinished(idx, nFiles) == idx > nFiles

\* mutant of StoreAfterWrite: the new records are added to the stored ones
StoreAfterWriteMerged(stored, records) == stored \o records

\* the content of knowledge_base.json after fs.writeFileSync(outputPath, ...):
\* the file is replaced by the serialised list of this run
StoreAfterWrite(stored, records) == records

----------------------------------------------------------------------------
(* Inputs of an ingestion run *)

\* document texts: no chunk, one chunk, five chunks under the default size
TextNoChunk == <<Run("a", 10)>>
TextOneChunk == <<Run("a", 60)>>
TextFiveChunks ==
    <<Run("b", 500), Run("\n", 2), Run("a", 500), Run("\n", 2),
      Run("b", 500), Run("\n", 2), Run("a", 900), Run(".", 1), Run("b", 60)>>

\* the kinds of directory entry: readable PDFs, a PDF readFileSync fails on, a
\* PDF pdfParse rejects, a file that is no PDF
EntryKinds ==
    {[ext |-> "pdf", status |-> "ok", text |-> TextNoChunk],
     [ext |-> "pdf", status |-> "ok", text |-> TextOneChunk],
     [ext |-> "pdf", status |-> "ok", text |-> TextFiveChunks],
     [ext |-> "pdf", status |-> "unreadable", text |-> TextOneChunk],
     [ext |-> "pdf", status |-> "corrupt", text |-> TextOneChunk],
     [ext |-> "txt", status |-> "ok", text |-> TextOneChunk]}

DirOf(kinds) ==
    [i \in 1..Len(kinds) |->
        [name |-> FileName(i, kinds[i].ext), status |-> kinds[i].status,
         text |-> kinds[i].text]]

Directories == {DirOf(ks) : ks \in SeqsUpTo(EntryKinds, MaxDirEntries)}

\* a store an earlier run over other documents left behind
OldStore ==
    PushChunks(<<>>, 1, FileName(0, "pdf"),
               chunkText(TextFiveChunks, DefaultMaxChunkSize)).knowledgeBase

InitIngest ==
    /\ ctIdle
    /\ apiIdle
    /\ rcIdle
    /\ pdfParseLoads \in BOOLEAN
    /\ dirExists \in BOOLEAN
    /\ dirEntries \in (IF dirExists THEN Directories ELSE {<<>>})
    /\ kbFile \in {<<>>, OldStore}
    /\ kbHistory = <<kbFile>>
    /\ pc = "idle"
    /\ outcome = "none"
    /\ files = <<>>
    /\ fileIdx = 0
    /\ ingKnowledgeBase = <<>>
    /\ chunkId = 0
    /\ errors = <<>>
    /\ nWrites = 0
    /\ runs = 0

\* node scripts/ingest-pdf.js
StartRun ==
    /\ pc = "idle"
    /\ runs < MaxIngestRuns
    /\ runs' = runs + 1
    /\ pc' = "import"
    /\ outcome' = "running"
    /\ files' = <<>>
    /\ fileIdx' = 0
    /\ ingKnowledgeBase' = <<>>
    /\ chunkId' = 0
    /\ errors' = <<>>
    /\ nWrites' = 0
    /\ UNCHANGED <<pdfParseLoads, dirExists, dirEntries, kbFile, kbHistory, ctVars, rcVars, apiVars>>

\* await import('pdf-parse')
ImportPdfParse ==
    /\ pc = "import"
    /\ \/ /\ ~pdfParseLoads
          /\ pc' = "idle"
          /\ outcome' = "importFailed"
       \/ /\ pdfParseLoads
          /\ pc' = "checkDir"
          /\ outcome' = outcome
    /\ UNCHANGED <<pdfParseLoads, dirExists, dirEntries, kbFile, files, fileIdx,
                   ingKnowledgeBase, chunkId, errors, nWrites, runs, kbHistory, ctVars, rcVars, apiVars>>

\* mutant of CheckDir: the branch for the missing directory goes on to save
\* the (empty) knowledge base
CheckDirThenSave ==
    /\ pc = "checkDir"
    /\ \/ /\ ~dirExists
          /\ dirExists' = TRUE
          /\ dirEntries' = <<>>
          /\ kbFile' = ingKnowledgeBase
          /\ nWrites' = nWrites + 1
          /\ pc' = "idle"
          /\ outcome' = "dirCreated"
       \/ /\ dirExists
          /\ UNCHANGED <<dirExists, dirEntries, outcome, kbFile, nWrites>>
          /\ pc' = "list"
    /\ UNCHANGED <<pdfParseLoads, files, fileIdx, ingKnowledgeBase,
                   chunkId, errors, runs, kbHistory, ctVars, rcVars, apiVars>>

\* if (!fs.existsSync(pdfDir)) { fs.mkdirSync(pdfDir); return }
CheckDir ==
    /\ pc = "checkDir"
    /\ \/ /\ ~dirExists
          /\ dirExists' = TRUE
          /\ dirEntries' = <<>>
          /\ pc' = "idle"
          /\ outcome' = "dirCreated"
       \/ /\ dirExists
          /\ UNCHANGED <<dirExists, dirEntries, outcome>>
          /\ pc' = "list"
    /\ UNCHANGED <<pdfParseLoads, kbFile, files, fileIdx, ingKnowledgeBase,
                   chunkId, errors, nWrites, runs, kbHistory, ctVars, rcVars, apiVars>>

\* the listing of the PDF files and the initialisation of the loop
ListFiles ==
    /\ pc = "list"
    /\ files' = PdfFiles(dirEntries)
    /\ \/ /\ Len(PdfFiles(dirEntries)) = 0
          /\ pc' = "idle"
          /\ outcome' = "noFiles"
          /\ UNCHANGED <<ingKnowledgeBase, chunkId, fileIdx>>
       \/ /\ Len(PdfFiles(dirEntries)) # 0
          /\ pc' = "loop"
          /\ outcome' = outcome
          /\ ingKnowledgeBase' = <<>>
          /\ chunkId' = 1
          /\ fileIdx' = 1
    /\ UNCHANGED <<pdfParseLoads, dirExists, dirEntries, kbFile, errors, nWrites,
                   runs, kbHistory, ctVars, rcVars, apiVars>>

\* one iteration of the loop over files: the try block and its catch
ProcessFile ==
    /\ pc = "loop"
    /\ fileIdx <= Len(files)
    /\ LET file == files[fileIdx]
           data == Extract(EntryOf(dirEntries, file))
           pushed == PushChunks(ingKnowledgeBase, chunkId, file,
                                chunkText(data.text, DefaultMaxChunkSize))
       IN  \/ /\ ~data.threw
              /\ ingKnowledgeBase' = pushed.knowledgeBase
              /\ chunkId' = pushed.chunkId
              /\ fileIdx' = fileIdx + 1
              /\ errors' = errors
           \/ /\ data.threw
              /\ errors' = Append(errors, file)
              /\ fileIdx' = IndexAfterError(fileIdx, Len(files))
              /\ UNCHANGED <<ingKnowledgeBase, chunkId>>
    /\ UNCHANGED <<pdfParseLoads, dirExists, dirEntries, kbFile, pc, outcome,
                   files, nWrites, runs, kbHistory, ctVars, rcVars, apiVars>>

\* fs.writeFileSync(outputPath, JSON.stringify(knowledgeBase)) after the loop
SaveKnowledgeBase ==
    /\ pc = "loop"
    /\ LoopFinished(fileIdx, Len(files))
    /\ kbFile' = StoreAfterWrite(kbFile, ingKnowledgeBase)
    /\ kbHistory' = Append(kbHistory, StoreAfterWrite(kbFile, ingKnowledgeBase))
    /\ nWrites' = nWrites + 1
    /\ pc' = "idle"
    /\ outcome' = "complete"
    /\ UNCHANGED <<pdfParseLoads, dirExists, dirEntries, files, fileIdx,
                   ingKnowledgeBase, chunkId, errors, runs, ctVars, rcVars, apiVars>>

NextIngest ==
    \/ StartRun
    \/ ImportPdfParse
    \/ CheckDir
    \/ ListFiles
    \/ ProcessFile
    \/ SaveKnowledgeBase

SpecIngest == InitIngest /\ [][NextIngest]_vars

----------------------------------------------------------------------------
(* The chat backend serving queries while the ingestion script runs.  The  *)
(* backend holds the array it imported from knowledge_base.json when its   *)
(* module was loaded; the script is another process and its steps          *)
(* interleave with the calls.  retrieveContext contains no await, so one   *)
(* call is one step of the backend.                                        *)

\* calls of retrieveContext in one behaviour
MaxServeCalls == 2

\* queries: one matching the chunks of a's, one matching the chunks of b's
ServeQueries == {<<Run("a", 3)>>, <<Run("B", 3)>>}

\* source directories: an empty one, and one with a PDF of five chunks, a
\* corrupt PDF and a PDF of one chunk
ServeDirectories ==
    {<<>>,
     DirOf(<<[ext |-> "pdf", status |-> "ok", text |-> TextFiveChunks],
             [ext |-> "pdf", status |-> "corrupt", text |-> TextOneChunk],
             [ext |-> "pdf", status |-> "ok", text |-> TextOneChunk]>>)}

InitServe ==
    /\ ctIdle
    /\ apiIdle
    /\ pdfParseLoads \in BOOLEAN
    /\ dirExists \in BOOLEAN
    /\ dirEntries \in (IF dirExists THEN ServeDirectories ELSE {<<>>})
    /\ kbFile \in {<<>>, OldStore}
    /\ kbHistory = <<kbFile>>
    /\ pc = "idle"
    /\ outcome = "none"
    /\ files = <<>>
    /\ fileIdx = 0
    /\ ingKnowledgeBase = <<>>
    /\ chunkId = 0
    /\ errors = <<>>
    /\ nWrites = 0
    /\ runs = 0
    /\ knowledgeBase = kbFile
    /\ query = <<>>
    /\ rcTopMatches = <<>>
    /\ rcReturn = <<>>
    /\ rcWarnings = 0
    /\ rcPc = "ready"
    /\ rcCalls = 0

\* a chat request arrives and retrieveContext is called with its query
ReceiveQuery ==
    /\ rcPc \in {"ready", "returned"}
    /\ rcCalls < MaxServeCalls
    /\ query' \in ServeQueries
    /\ rcCalls' = rcCalls + 1
    /\ rcPc' = "call"
    /\ UNCHANGED <<knowledgeBase, rcTopMatches, rcReturn, rcWarnings, ctVars,
                   ingVars, apiVars>>

\* import knowledgeBase from './knowledge_base.json', evaluated again when the
\* backend is rebuilt or restarted between two calls.  (A load that meets a
\* half-written file fails in the JSON parser and leaves no module to call.)
ReloadModule ==
    /\ rcPc \in {"ready", "returned"}
    /\ knowledgeBase # kbFile
    /\ knowledgeBase' = kbFile
    /\ UNCHANGED <<query, rcTopMatches, rcReturn, rcWarnings, rcPc, rcCalls,
                   ctVars, ingVars, apiVars>>

NextServe ==
    \/ ReceiveQuery
    \/ CallRetrieveContext
    \/ ReloadModule
    \/ NextIngest

SpecServe == InitServe /\ [][NextServe]_vars

----------------------------------------------------------------------------
(* The SSE route: POST of app/api/stream/route.ts.  The answer of the      *)
(* backend is fetched whole and relayed as a stream of events.             *)

\* characters of a backend answer
MaxAnswerLength == 3

\* messages of a request
MaxMessages == 2

\* a message with a text, one whose content is the empty string, and one
\* without content
MessageKinds ==
    {[defined |-> TRUE, content |-> <<Run("a", 2)>>],
     [defined |-> TRUE, content |-> EmptyStr],
     [defined |-> FALSE, content |-> EmptyStr]}

\* the field messages of a body: missing, no array, or an array of messages
MessagesFields ==
    {[kind |-> "undefined", items |-> <<>>], [kind |-> "notArray", items |-> <<>>]}
        \cup {[kind |-> "array", items |-> ms] : ms \in SeqsUpTo(MessageKinds, MaxMessages)}

\* request bodies: JSON that request.json() parses, and one it rejects
Requests ==
    {[json |-> TRUE, messages |-> m, streamId |-> sid] :
        m \in MessagesFields, sid \in {"", "s1"}}
        \cup {[json |-> FALSE, messages |-> [kind |-> "undefined", items |-> <<>>],
               streamId |-> ""]}

\* the answers of the backend
Answers == {Str(cs) : cs \in SeqsUpTo({"a", "b"}, MaxAnswerLength)}

\* what the call of the backend gives: an answer, a body without the field
\* response, an HTTP error with or without a detail, a failed connection
BackendOutcomes ==
    {[kind |-> "ok", response |-> a, detail |-> ""] : a \in Answers}
        \cup {[kind |-> "noResponse", response |-> EmptyStr, detail |-> ""],
              [kind |-> "httpError", response |-> EmptyStr, detail |-> "detail"],
              [kind |-> "httpError", response |-> EmptyStr, detail |-> ""],
              [kind |-> "network", response |-> EmptyStr, detail |-> ""]}

\* the object sendSSE serialises; a field that is absent is empty here
Event(type, content, error, streamId) ==
    [type |-> type, content |-> content, error |-> error, streamId |-> streamId]

\* fullResponse.split('')
RECURSIVE SplitChars(_)
SplitChars(str) ==
    IF str = <<>> THEN <<>>
    ELSE [i \in 1..Head(str).n |-> Head(str).c] \o SplitChars(Tail(str))

\* the message of the error thrown when the backend call does not give an
\* answer
BackendErrorMessage(reply) ==
    IF reply.kind = "httpError"
    THEN (IF reply.detail # "" THEN reply.detail ELSE "Backend error: 500")
    ELSE IF reply.kind = "network" THEN "fetch failed"
    ELSE "Cannot read properties of undefined (reading 'length')"

\* the last element of the array, undefined when the array is empty
LastMessage(messages) ==
    IF messages.items = <<>> THEN [defined |-> FALSE, content |-> EmptyStr]
    ELSE messages.items[Len(messages.items)]

\* the checks of the route before it opens the stream: the status and error
\* of the JSON response it returns, status 200 when the request passes
RouteValidation(request) ==
    IF ~request.json
    THEN [status |-> 500, error |-> "Unexpected token in JSON"]
    ELSE IF request.messages.kind # "array"
    THEN [status |-> 400, error |-> "Messages are required and must be an array"]
    ELSE IF request.messages.items = <<>> \/ ~LastMessage(request.messages).defined
    THEN \* lastMessage.content.substring(0, 100) in the console.log throws
         [status |-> 500, error |-> "Cannot read properties of undefined"]
    ELSE IF LastMessage(request.messages).content = EmptyStr
    THEN [status |-> 400, error |-> "Invalid message format"]
    ELSE [status |-> 200, error |-> ""]

\* mutant of ChunkContent: the event carries the new character only
ChunkContentCharOnly(accumulated, char) == <<Run(char, 1)>>

\* accumulatedContent += char, the content of the chunk event
ChunkContent(accumulated, char) == Cat(accumulated, <<Run(char, 1)>>)

InitRelay ==
    /\ ctIdle
    /\ rcIdle
    /\ ingIdle
    /\ grIdle
    /\ chIdle
    /\ pdIdle
    /\ clIdle
    /\ sseRequest \in Requests
    /\ ssePc = "received"
    /\ sseStatus = 0
    /\ sseBody = ""
    /\ sseBackend = <<>>
    /\ sseBackendCalls = 0
    /\ sseEvents = <<>>
    /\ sseAccumulated = <<>>
    /\ sseIdx = 0
    /\ sseClosed = FALSE

\* POST up to the response it returns: a JSON error, or the stream, whose
\* start callback sends the start event and calls the backend
ReceivePost ==
    /\ ssePc = "received"
    /\ sseStatus' = RouteValidation(sseRequest).status
    /\ sseBody' = RouteValidation(sseRequest).error
    /\ \/ /\ RouteValidation(sseRequest).status # 200
          /\ ssePc' = "rejected"
          /\ UNCHANGED <<sseEvents, sseBackendCalls>>
       \/ /\ RouteValidation(sseRequest).status = 200
          /\ sseEvents' = <<Event("start", EmptyStr, "", sseRequest.streamId)>>
          /\ sseBackendCalls' = sseBackendCalls + 1
          /\ ssePc' = "fetching"
    /\ UNCHANGED <<sseRequest, sseBackend, sseAccumulated, sseIdx, sseClosed,
                   notSse>>

\* the backend call settles: the loop starts, or the catch block sends the
\* error event and closes
BackendReplies ==
    /\ ssePc = "fetching"
    /\ \E reply \in BackendOutcomes :
          /\ sseBackend' = reply
          /\ \/ /\ reply.kind = "ok"
                /\ ssePc' = "streaming"
                /\ sseAccumulated' = EmptyStr
                /\ sseIdx' = 0
                /\ UNCHANGED <<sseEvents, sseClosed>>
             \/ /\ reply.kind # "ok"
                /\ sseEvents' = Append(sseEvents,
                                       Event("", EmptyStr, BackendErrorMessage(reply),
                                             sseRequest.streamId))
                /\ sseClosed' = TRUE
                /\ ssePc' = "closed"
                /\ UNCHANGED <<sseAccumulated, sseIdx>>
    /\ UNCHANGED <<sseRequest, sseStatus, sseBody, sseBackendCalls,
                   notSse>>

\* one iteration of the loop over the characters, up to its timer
SendChunk ==
    /\ ssePc = "streaming"
    /\ sseIdx < Len(SplitChars(sseBackend.response))
    /\ LET char == SplitChars(sseBackend.response)[sseIdx + 1]
       IN  /\ sseAccumulated' = Cat(sseAccumulated, <<Run(char, 1)>>)
           /\ sseEvents' = Append(sseEvents,
                                  Event("chunk", ChunkContent(sseAccumulated, char),
                                        "", sseRequest.streamId))
    /\ sseIdx' = sseIdx + 1
    /\ UNCHANGED <<sseRequest, ssePc, sseStatus, sseBody, sseBackend,
                   sseBackendCalls, sseClosed, notSse>>

\* after the loop: the end event and controller.close()
SendEnd ==
    /\ ssePc = "streaming"
    /\ sseIdx = Len(SplitChars(sseBackend.response))
    /\ sseEvents' = Append(sseEvents,
                           Event("end", sseAccumulated, "", sseRequest.streamId))
    /\ sseClosed' = TRUE
    /\ ssePc' = "closed"
    /\ UNCHANGED <<sseRequest, sseStatus, sseBody, sseBackend, sseBackendCalls,
                   sseAccumulated, sseIdx, notSse>>

NextRelay ==
    \/ ReceivePost
    \/ BackendReplies
    \/ SendChunk
    \/ SendEnd

\* the handler runs when a request has arrived and the timers of the loop
\* fire; the backend is not bound to answer
SpecRelay ==
    /\ InitRelay
    /\ [][NextRelay]_vars
    /\ WF_vars(ReceivePost)
    /\ WF_vars(SendChunk)
    /\ WF_vars(SendEnd)

----------------------------------------------------------------------------
(* generateResponse of gemini.js: the model call with its retries.         *)

maxRetries == 3

retryDelays == <<1000, 2000, 4000>>

OverloadApology == "Xin loi, he thong dang qua tai. Vui long thu lai sau it phut."

GenericApology ==
    "Xin loi, da co loi xay ra khi xu ly yeu cau cua ban. Vui long thu lai sau."

\* the text the model returns
ModelText == "text"

\* the errors a model call or the onStream callback throws: status is 0 and
\* hasMessage is FALSE where the error has no such field
Errors ==
    {[status |-> 429, hasMessage |-> TRUE, message |-> Str(<<"x">>)],
     [status |-> 0, hasMessage |-> TRUE, message |-> Str(<<"e", "4", "2", "9">>)],
     [status |-> 0, hasMessage |-> TRUE,
      message |-> Str(<<"R", "a", "t", "e", " ", "L", "i", "m", "i", "t">>)],
     [status |-> 0, hasMessage |-> TRUE, message |-> Str(<<"q", "u", "o", "t", "a">>)],
     [status |-> 0, hasMessage |-> TRUE, message |-> Str(<<"Q", "U", "O", "T", "A">>)],
     [status |-> 500, hasMessage |-> TRUE, message |-> Str(<<"4", "2", " ", "9">>)],
     [status |-> 0, hasMessage |-> TRUE, message |-> Str(<<"r", "a", "t", "e">>)],
     [status |-> 0, hasMessage |-> FALSE, message |-> EmptyStr]}

\* mutant of is429Error: the status alone decides
is429ErrorStatusOnly(error) == error.status = 429

\* is429Error of the catch block
is429Error(error) ==
    \/ error.hasMessage /\ includes(error.message, Str(<<"4", "2", "9">>))
    \/ error.status = 429
    \/ error.hasMessage
          /\ includes(toLowerCase(error.message),
                      Str(<<"r", "a", "t", "e", " ", "l", "i", "m", "i", "t">>))
    \/ error.hasMessage
          /\ includes(toLowerCase(error.message), Str(<<"q", "u", "o", "t", "a">>))

\* the test of the catch block that leads to delay and continue
MayRetry(error, attempt) == is429Error(error) /\ attempt < maxRetries

\* mutant of DelayBefore: the same delay before every retry
DelayBeforeConstant(attempt) == retryDelays[1]

\* retryDelays[attempt], the array being indexed from 0
DelayBefore(attempt) == retryDelays[attempt + 1]

\* the string the catch block returns when it does not retry
ApologyFor(error) == IF is429Error(error) THEN OverloadApology ELSE GenericApology

NoError == [status |-> 0, hasMessage |-> FALSE, message |-> EmptyStr]

InitGenerate ==
    /\ ctIdle
    /\ rcIdle
    /\ ingIdle
    /\ sseIdle
    /\ chIdle
    /\ pdIdle
    /\ clIdle
    /\ grOnStream \in BOOLEAN
    /\ grPc = "attempt"
    /\ grAttempt = 0
    /\ grCalls = 0
    /\ grWaits = <<>>
    /\ grError = NoError
    /\ grReturn = ""
    /\ grThrew = FALSE

\* an iteration whose try block runs to its return
AttemptSucceeds ==
    /\ grPc = "attempt"
    /\ grAttempt <= maxRetries
    /\ grCalls' = grCalls + 1
    /\ grReturn' = ModelText
    /\ grPc' = "returned"
    /\ UNCHANGED <<grOnStream, grAttempt, grWaits, grError, grThrew, notGr>>

\* an iteration whose try block throws, in the model call or, with onStream,
\* in the callback after it: the catch block starts a delay or returns
AttemptFails ==
    /\ grPc = "attempt"
    /\ grAttempt <= maxRetries
    /\ grCalls' = grCalls + 1
    /\ \E error \in Errors :
          /\ grError' = error
          /\ \/ /\ MayRetry(error, grAttempt)
                /\ grWaits' = Append(grWaits, DelayBefore(grAttempt))
                /\ grPc' = "delay"
                /\ UNCHANGED grReturn
             \/ /\ ~MayRetry(error, grAttempt)
                /\ grReturn' = ApologyFor(error)
                /\ grPc' = "returned"
                /\ UNCHANGED grWaits
    /\ UNCHANGED <<grOnStream, grAttempt, grThrew, notGr>>

\* the timer of delay fires: continue, attempt++
DelayElapsed ==
    /\ grPc = "delay"
    /\ grAttempt' = grAttempt + 1
    /\ grPc' = "attempt"
    /\ UNCHANGED <<grOnStream, grCalls, grWaits, grError, grReturn, grThrew, notGr>>

NextGenerate ==
    \/ AttemptSucceeds
    \/ AttemptFails
    \/ DelayElapsed

\* the model call settles and the timers fire; the return after the loop is
\* never reached, the catch block of the last iteration returns
SpecGenerate ==
    /\ InitGenerate
    /\ [][NextGenerate]_vars
    /\ WF_vars(AttemptSucceeds \/ AttemptFails)
    /\ WF_vars(DelayElapsed)

----------------------------------------------------------------------------
(* The chat API handler of pages/api/chat.ts with its responseCache.       *)

\* requests the handler receives in a behaviour
MaxChatRequests == 3

\* request bodies: another method, no messages array, an empty array, a last
\* message without content, and last messages with a content
ChatRequests ==
    {[kind |-> k, content |-> EmptyStr] : k \in {"get", "noArray", "empty", "noContent"}}
        \cup {[kind |-> "message", content |-> c] :
                c \in {Str(<<"h">>), Str(<<" ", "h">>), Str(<<"y">>)}}

\* what generateResponse returns: a text of the model or an apology
GeneratedContents == {ModelText, OverloadApology}

\* the status and error of a request the handler answers before the cache,
\* status 200 when the request passes
ChatValidation(request) ==
    IF request.kind = "get" THEN [status |-> 405, error |-> "Method not allowed"]
    ELSE IF request.kind = "noArray"
    THEN [status |-> 400, error |-> "Messages are required and must be an array"]
    ELSE IF request.kind \in {"empty", "noContent"} \/ request.content = EmptyStr
    THEN [status |-> 500, error |-> "Invalid message format"]
    ELSE [status |-> 200, error |-> ""]

\* mutant of cacheKey: the content as sent
cacheKeyUntrimmed(request) == request.content

\* cacheKey = lastMessage.content.trim()
cacheKey(request) == Trim(request.content)

\* responseCache.has(key)
CacheHas(cache, key) == \E entry \in cache : entry.key = key

\* responseCache.get(key)
CacheGet(cache, key) == (CHOOSE entry \in cache : entry.key = key).content

\* mutant of CacheSet: a key that is present keeps its content
CacheSetIfAbsent(cache, key, content) ==
    IF CacheHas(cache, key) THEN cache ELSE cache \cup {[key |-> key, content |-> content]}

\* responseCache.set(key, content)
CacheSet(cache, key, content) ==
    {entry \in cache : entry.key # key} \cup {[key |-> key, content |-> content]}

\* the requests answered with status 200 so far
Answered == {i \in 1..Len(chRequests) :
                chRequests[i].pc = "done" /\ chRequests[i].status = 200}

\* a request in the handler: pc is where it stands, the response fields are
\* empty until it is answered, answeredBefore are the requests that had
\* their answer when this one arrived
ChatRequest(request, at, status, content, cached) ==
    [request |-> request, pc |-> at, status |-> status, content |-> content,
     cached |-> cached, retrieveCalls |-> 0, generateCalls |-> 0,
     answeredBefore |-> Answered]

InitChat ==
    /\ ctIdle
    /\ rcIdle
    /\ ingIdle
    /\ sseIdle
    /\ grIdle
    /\ pdIdle
    /\ clIdle
    /\ chRequests = <<>>
    /\ chCache = {}

\* a request arrives: the handler runs up to its first await, or answers
HandlerStarts ==
    /\ Len(chRequests) < MaxChatRequests
    /\ \E request \in ChatRequests :
          \/ /\ ChatValidation(request).status # 200
             /\ chRequests' = Append(chRequests,
                    ChatRequest(request, "done", ChatValidation(request).status,
                                ChatValidation(request).error, FALSE))
          \/ /\ ChatValidation(request).status = 200
             /\ CacheHas(chCache, cacheKey(request))
             /\ chRequests' = Append(chRequests,
                    ChatRequest(request, "done", 200, CacheGet(chCache, cacheKey(request)),
                                TRUE))
          \/ /\ ChatValidation(request).status = 200
             /\ ~CacheHas(chCache, cacheKey(request))
             /\ chRequests' = Append(chRequests,
                    [ChatRequest(request, "retrieveContext", 0, "", FALSE)
                        EXCEPT !.retrieveCalls = 1])
    /\ UNCHANGED <<chCache, notCh>>

\* retrieveContext has resolved: generateResponse is called
ContextRetrieved ==
    /\ \E i \in 1..Len(chRequests) :
          /\ chRequests[i].pc = "retrieveContext"
          /\ chRequests' = [chRequests EXCEPT ![i].pc = "generateResponse",
                                               ![i].generateCalls = 1]
    /\ UNCHANGED <<chCache, notCh>>

\* generateResponse has resolved: the content is stored and sent
ResponseGenerated ==
    /\ \E i \in 1..Len(chRequests), content \in GeneratedContents :
          /\ chRequests[i].pc = "generateResponse"
          /\ chCache' = CacheSet(chCache, cacheKey(chRequests[i].request), content)
          /\ chRequests' = [chRequests EXCEPT ![i].pc = "done",
                                               ![i].status = 200,
                                               ![i].content = content,
                                               ![i].cached = FALSE]
    /\ UNCHANGED notCh

NextChat ==
    \/ HandlerStarts
    \/ ContextRetrieved
    \/ ResponseGenerated

SpecChat == InitChat /\ [][NextChat]_vars

----------------------------------------------------------------------------
(* The PDF loader of utils/pdf-loader.ts: loadPDFDocuments and the cache   *)
(* of getPDFDocuments.                                                     *)

\* calls of getPDFDocuments in a behaviour
MaxCallers == 3

\* PDF files of the directory
MaxPdfFiles == 2

\* a paragraph longer than this is kept
MinParagraphLength == 50

\* the files of data/pdf: one that cannot be read or parsed, one whose text
\* has no paragraph that is kept, one with a paragraph that is kept
LoaderFiles ==
    {[parses |-> FALSE, paragraphs |-> <<>>],
     [parses |-> TRUE, paragraphs |-> <<[text |-> "short", length |-> 50]>>],
     [parses |-> TRUE, paragraphs |-> <<[text |-> "short", length |-> 50],
                                        [text |-> "long", length |-> 51]>>]}

\* the directory: missing, not readable, or its PDF files
LoaderDirectories ==
    {[exists |-> FALSE, readable |-> FALSE, files |-> <<>>],
     [exists |-> TRUE, readable |-> FALSE, files |-> <<>>]}
        \cup {[exists |-> TRUE, readable |-> TRUE, files |-> fs] :
                fs \in SeqsUpTo(LoaderFiles, MaxPdfFiles)}

\* the paragraphs of a text that are kept
RECURSIVE KeptParagraphs(_)
KeptParagraphs(paragraphs) ==
    IF paragraphs = <<>> THEN <<>>
    ELSE (IF Head(paragraphs).length > MinParagraphLength
          THEN <<Head(paragraphs).text>> ELSE <<>>)
             \o KeptParagraphs(Tail(paragraphs))

\* the loop over the files: a file that fails is skipped
RECURSIVE AllChunks(_)
AllChunks(fs) ==
    IF fs = <<>> THEN <<>>
    ELSE (IF Head(fs).parses THEN KeptParagraphs(Head(fs).paragraphs) ELSE <<>>)
             \o AllChunks(Tail(fs))

\* the array loadPDFDocuments resolves with
loadPDFDocuments(directory) ==
    IF ~directory.exists THEN <<>>
    ELSE IF ~directory.readable THEN <<>>
    ELSE AllChunks(directory.files)

\* mutant of IsCached: an empty array does not count as loaded
IsCachedNonEmpty(cached) == ~cached.isNull /\ cached.docs # <<>>

\* cachedDocuments !== null
IsCached(cached) == ~cached.isNull

InitLoader ==
    /\ ctIdle
    /\ rcIdle
    /\ ingIdle
    /\ sseIdle
    /\ grIdle
    /\ chIdle
    /\ clIdle
    /\ pdDirectory \in LoaderDirectories
    /\ cachedDocuments = NullDocuments
    /\ loadingPromise = 0
    /\ pdPromises = <<>>
    /\ pdLoadCalls = 0
    /\ pdCallers = <<>>

\* a call of getPDFDocuments: the caller has the cached array, or awaits the
\* promise of the load, which the call starts when there is none
getPDFDocuments ==
    /\ Len(pdCallers) < MaxCallers
    /\ \/ /\ IsCached(cachedDocuments)
          /\ pdCallers' = Append(pdCallers,
                                 [promise |-> 0, received |-> TRUE,
                                  value |-> cachedDocuments])
          /\ UNCHANGED <<loadingPromise, pdPromises, pdLoadCalls>>
       \/ /\ ~IsCached(cachedDocuments)
          /\ loadingPromise = 0
          /\ pdLoadCalls' = pdLoadCalls + 1
          /\ pdPromises' = Append(pdPromises, [settled |-> FALSE, value |-> NullDocuments])
          /\ loadingPromise' = Len(pdPromises')
          /\ pdCallers' = Append(pdCallers,
                                 [promise |-> loadingPromise', received |-> FALSE,
                                  value |-> NullDocuments])
       \/ /\ ~IsCached(cachedDocuments)
          /\ loadingPromise # 0
          /\ pdCallers' = Append(pdCallers,
                                 [promise |-> loadingPromise, received |-> FALSE,
                                  value |-> NullDocuments])
          /\ UNCHANGED <<loadingPromise, pdPromises, pdLoadCalls>>
    /\ UNCHANGED <<pdDirectory, cachedDocuments, notPd>>

\* a load resolves: the then callback sets cachedDocuments, clears
\* loadingPromise and settles the promise with the array
LoadResolves ==
    /\ \E k \in 1..Len(pdPromises) :
          /\ ~pdPromises[k].settled
          /\ LET docs == [isNull |-> FALSE, id |-> k,
                          docs |-> loadPDFDocuments(pdDirectory)]
             IN  /\ cachedDocuments' = docs
                 /\ pdPromises' = [pdPromises EXCEPT ![k] =
                                       [settled |-> TRUE, value |-> docs]]
    /\ loadingPromise' = 0
    /\ UNCHANGED <<pdDirectory, pdLoadCalls, pdCallers, notPd>>

\* a caller that awaits a settled promise receives its value
CallerReceives ==
    /\ \E i \in 1..Len(pdCallers) :
          /\ ~pdCallers[i].received
          /\ pdPromises[pdCallers[i].promise].settled
          /\ pdCallers' = [pdCallers EXCEPT
                              ![i].received = TRUE,
                              ![i].value = pdPromises[pdCallers[i].promise].value]
    /\ UNCHANGED <<pdDirectory, cachedDocuments, loadingPromise, pdPromises,
                   pdLoadCalls, notPd>>

NextLoader ==
    \/ getPDFDocuments
    \/ LoadResolves
    \/ CallerReceives

SpecLoader == InitLoader /\ [][NextLoader]_vars

----------------------------------------------------------------------------
(* The chat client: sendMessage of the AIAssistantUI component and the     *)
(* functions that abort its request.                                       *)

\* reads of the response stream in a call
MaxReads == 3

\* the content argument: blank and not blank
ClientContents == {Str(<<" ">>), Str(<<"h">>), Str(<<" ", "h">>)}

ClientConversations == {"c1", "c2"}

\* what one read of the stream delivers: a chunk or end event with its
\* content, an error event, or a line that is no JSON
StreamEvents ==
    {[type |-> "chunk", content |-> "a", error |-> ""],
     [type |-> "end", content |-> "ab", error |-> ""],
     [type |-> "", content |-> "", error |-> "backend failed"],
     [type |-> "unparsable", content |-> "", error |-> ""]}

ErrorMessage == "Da xay ra loi khi xu ly yeu cau cua ban. Vui long thu lai."

\* a message of the conversation
ClientMessage(role, content, isStreaming) ==
    [role |-> role, content |-> content, isStreaming |-> isStreaming]

\* the messages with the content of the placeholder of this call replaced
WithAssistantContent(messages, content, isStreaming) ==
    [messages EXCEPT ![2] = ClientMessage("assistant", content, isStreaming)]

InitClient ==
    /\ ctIdle
    /\ rcIdle
    /\ ingIdle
    /\ sseIdle
    /\ grIdle
    /\ chIdle
    /\ pdIdle
    /\ clConvId \in ClientConversations
    /\ clContent \in ClientContents
    /\ clPc = "called"
    /\ isThinking = FALSE
    /\ thinkingConvId = "null"
    /\ clMessages = <<>>
    /\ clAborted = FALSE
    /\ clThrown = ""
    /\ accumulatedChunks = ""
    /\ clReads = 0

\* sendMessage up to the await of fetch; blank content returns at once
SendMessage ==
    /\ clPc = "called"
    /\ \/ /\ Trim(clContent) = EmptyStr
          /\ clPc' = "returned"
          /\ UNCHANGED <<isThinking, thinkingConvId, clMessages>>
       \/ /\ Trim(clContent) # EmptyStr
          /\ isThinking' = TRUE
          /\ thinkingConvId' = clConvId
          /\ clMessages' = <<ClientMessage("user", "content", FALSE),
                             ClientMessage("assistant", "", TRUE)>>
          /\ clPc' = "fetch"
    /\ UNCHANGED <<clConvId, clContent, clAborted, clThrown, accumulatedChunks,
                   clReads, notCl>>

\* pauseThinking while the request is in flight: the controller is aborted
\* and the thinking state is reset
PauseThinking ==
    /\ clPc \in {"fetch", "read"}
    /\ ~clAborted
    /\ clAborted' = TRUE
    /\ isThinking' = FALSE
    /\ thinkingConvId' = "null"
    /\ UNCHANGED <<clConvId, clContent, clPc, clMessages, clThrown,
                   accumulatedChunks, clReads, notCl>>

\* cleanupConnections called by the unmount effect or by a later sendMessage
\* while the request is in flight: the controller is aborted
CleanupConnections ==
    /\ clPc \in {"fetch", "read"}
    /\ ~clAborted
    /\ clAborted' = TRUE
    /\ UNCHANGED <<clConvId, clContent, clPc, isThinking, thinkingConvId, clMessages,
                   clThrown, accumulatedChunks, clReads, notCl>>

\* the fetch resolves with a response that is ok
FetchResolves ==
    /\ clPc = "fetch"
    /\ ~clAborted
    /\ clPc' = "read"
    /\ UNCHANGED <<clConvId, clContent, isThinking, thinkingConvId, clMessages,
                   clAborted, clThrown, accumulatedChunks, clReads, notCl>>

\* the try block throws: the fetch rejects, the response is not ok or has no
\* body, a read rejects, or the request was aborted
TryThrows ==
    /\ clPc \in {"fetch", "read"}
    /\ \/ clAborted /\ clThrown' = "AbortError"
       \/ ~clAborted /\ clPc = "fetch"
             /\ clThrown' \in {"fetch failed", "Server error: 500",
                                "Failed to get response reader"}
       \/ ~clAborted /\ clPc = "read" /\ clThrown' = "read failed"
    /\ clPc' = "catch"
    /\ UNCHANGED <<clConvId, clContent, isThinking, thinkingConvId, clMessages,
                   clAborted, accumulatedChunks, clReads, notCl>>

\* the catch block: its first statement reads controller, a const declared
\* inside the try block and not in scope here, so it throws a ReferenceError
\* and the rest of the block does not run; the promise of sendMessage rejects
CatchBlock ==
    /\ clPc = "catch"
    /\ clThrown' = "ReferenceError: controller is not defined"
    /\ clPc' = "rejected"
    /\ UNCHANGED <<clConvId, clContent, isThinking, thinkingConvId, clMessages,
                   clAborted, accumulatedChunks, clReads, notCl>>

\* a read delivers one event
ReadEvent ==
    /\ clPc = "read"
    /\ ~clAborted
    /\ clReads < MaxReads
    /\ clReads' = clReads + 1
    /\ \E event \in StreamEvents :
          \/ /\ event.error # ""
             /\ isThinking' = FALSE
             /\ thinkingConvId' = "null"
             /\ clPc' = "returned"
             /\ UNCHANGED <<clMessages, accumulatedChunks>>
          \/ /\ event.error = ""
             /\ event.type \in {"chunk", "end"}
             /\ accumulatedChunks' = event.content
             /\ clMessages' = WithAssistantContent(clMessages, event.content, TRUE)
             /\ UNCHANGED <<clPc, isThinking, thinkingConvId>>
          \/ /\ event.type = "unparsable"
             /\ UNCHANGED <<clPc, isThinking, thinkingConvId, clMessages,
                            accumulatedChunks>>
    /\ UNCHANGED <<clConvId, clContent, clAborted, clThrown, notCl>>

\* a read reports done: the thinking state is reset and the message finalized
ReadDone ==
    /\ clPc = "read"
    /\ ~clAborted
    /\ isThinking' = FALSE
    /\ thinkingConvId' = "null"
    /\ clMessages' = WithAssistantContent(clMessages, accumulatedChunks, FALSE)
    /\ clPc' = "returned"
    /\ UNCHANGED <<clConvId, clContent, clAborted, clThrown, accumulatedChunks,
                   clReads, notCl>>

NextClient ==
    \/ SendMessage
    \/ PauseThinking
    \/ CleanupConnections
    \/ FetchResolves
    \/ TryThrows
    \/ CatchBlock
    \/ ReadEvent
    \/ ReadDone

\* the request settles and the stream is read to its end or to a failure
SpecClient ==
    /\ InitClient
    /\ [][NextClient]_vars
    /\ WF_vars(SendMessage)
    /\ WF_vars(CatchBlock)
    /\ WF_vars(FetchResolves \/ TryThrows \/ ReadEvent \/ ReadDone)

----------------------------------------------------------------------------
(* The whole model: a behaviour is a call of chunkText, a call of          *)
(* retrieveContext, or runs of the ingestion script                         *)

Init == InitChunk \/ InitRetrieve \/ InitIngest

Next == NextChunk \/ NextRetrieve \/ NextIngest

Spec == Init /\ [][Next]_vars

----------------------------------------------------------------------------
(* Claims about chunkText *)

RECURSIVE ConcatAll(_)
ConcatAll(strs) == IF strs = <<>> THEN <<>> ELSE Cat(Head(strs), ConcatAll(Tail(strs)))

\* s without its whitespace characters
StripWhitespace(s) == Normalize(SelectSeq(s, LAMBDA r : ~IsWhitespace(r.c)))

\* the sentences the chunker cuts the over-long paragraphs of text into
OversizeSentences(text, maxChunkSize) ==
    UNION {Range(SplitSentences(p)) :
             p \in {q \in Range(SplitParagraphs(text)) : Length(q) > maxChunkSize}}

\* chunk is one single sentence of text that is longer than maxChunkSize, as the
\* chunker emits it.  The sentence is counted with the terminator written after
\* it, the reading most favourable to the code.
IsSingleOversizeSentence(chunk, text, maxChunkSize) ==
    \E s \in OversizeSentences(text, maxChunkSize) :
        /\ Length(s) + 1 > maxChunkSize
        /\ chunk = Trim(Cat(s, DotSpace))

\* C1: every chunk emitted before the length filter is at most maxChunkSize
\* characters long, unless it consists of one single sentence that is itself
\* longer than maxChunkSize.
C1_ChunkWithinMax ==
    ctPc = "returned" =>
        \A i \in 1..Len(ctChunks) :
            \/ Length(ctChunks[i]) <= ctMax
            \/ IsSingleOversizeSentence(ctChunks[i], ctText, ctMax)

\* C2: the chunks emitted before the length filter, concatenated in order and
\* with whitespace ignored, are the non-blank content of the input text.
C2_ContentPreserved ==
    ctPc = "returned" =>
        StripWhitespace(ConcatAll(ctChunks)) = StripWhitespace(ctText)

\* C5: every chunk chunkText returns, and every record ingestion collects or
\* persists, has a content whose trimmed length is strictly greater than 50.
C5_ReturnedChunksLong ==
    /\ ctPc = "returned" =>
          \A i \in 1..Len(ctReturn) : Length(Trim(ctReturn[i])) > 50
    /\ \A i \in 1..Len(ingKnowledgeBase) :
          Length(Trim(ingKnowledgeBase[i].content)) > 50
    /\ \A i \in 1..Len(kbFile) : Length(Trim(kbFile[i].content)) > 50

\* a call that returned a chunk and dropped another one in the filter
C5_Witness ==
    /\ ctPc = "returned"
    /\ ctReturn # <<>>
    /\ Len(ctReturn) < Len(ctChunks)

----------------------------------------------------------------------------
(* Claims about retrieveContext *)

\* the whitespace-separated tokens of the query, lower-cased
QueryTokens(q) == Range(Split(toLowerCase(q), WhitespaceChars, 1))

\* the chunk contains, case-insensitively, a query token of 3 or more characters
ContainsKeyword(doc, q) ==
    \E w \in QueryTokens(q) :
        Length(w) >= 3 /\ includes(toLowerCase(doc.content), w)

\* the positions of the knowledge base whose chunk contains a keyword
Qualifying(kb, q) == {i \in 1..Len(kb) : ContainsKeyword(kb[i], q)}

\* the position of a chunk in kb, 0 when it is no chunk of kb
PositionOf(kb, doc) ==
    IF \E i \in 1..Len(kb) : kb[i] = doc
    THEN CHOOSE i \in 1..Len(kb) : kb[i] = doc
    ELSE 0

\* C3: the result is the content of at most 5 chunks, each a chunk of the
\* knowledge base, in the order of the knowledge base, each containing a query
\* keyword as a case-insensitive substring.
C3_AtMostFiveInOrder ==
    rcPc = "returned" =>
        /\ Len(rcTopMatches) <= 5
        /\ \A j \in 1..Len(rcTopMatches) :
              /\ PositionOf(knowledgeBase, rcTopMatches[j]) # 0
              /\ ContainsKeyword(rcTopMatches[j], query)
        /\ \A j \in 1..(Len(rcTopMatches) - 1) :
              PositionOf(knowledgeBase, rcTopMatches[j])
                < PositionOf(knowledgeBase, rcTopMatches[j + 1])
        /\ rcReturn = join([j \in 1..Len(rcTopMatches) |-> rcTopMatches[j].content],
                           TwoNewlines)

\* more than 5 chunks qualify and 5 are returned
C3_Witness ==
    /\ rcPc = "returned"
    /\ Cardinality(Qualifying(knowledgeBase, query)) > 5
    /\ Len(rcTopMatches) = 5

\* the j-th smallest element of a set of positions
Nth(S, j) == CHOOSE i \in S : Cardinality({k \in S : k <= i}) = j

\* the contents, each followed by a blank line except the last
RECURSIVE BlankLineSeparated(_)
BlankLineSeparated(contents) ==
    IF contents = <<>> THEN <<>>
    ELSE IF Len(contents) = 1 THEN contents[1]
    ELSE Cat(BlankLineSeparated(SubSeq(contents, 1, Len(contents) - 1)),
             Cat(<<Run("\n", 2)>>, contents[Len(contents)]))

C6_EmptyKnowledgeBase ==
    (rcPc = "returned" /\ knowledgeBase = <<>>) =>
        /\ rcReturn = EmptyStr
        /\ rcWarnings = 1

\* the call with an empty knowledge base and a query holding a keyword returned
C6_Witness ==
    /\ rcPc = "returned"
    /\ knowledgeBase = <<>>
    /\ \E w \in QueryTokens(query) : Length(w) >= 3

\* C7: a token is a keyword iff it has 3 or more characters: a chunk holding
\* a token of exactly 3 characters is selected (when among the first 5), every
\* selected chunk holds a token of 3 or more characters, and a query of tokens
\* all shorter than 3 yields the empty string.
C7_KeywordLength ==
    rcPc = "returned" =>
        /\ \A i \in 1..Len(knowledgeBase) :
              (\E w \in QueryTokens(query) :
                    /\ Length(w) = 3
                    /\ includes(toLowerCase(knowledgeBase[i].content), w))
                => \/ knowledgeBase[i] \in Range(rcTopMatches)
                   \/ Len(rcTopMatches) = 5
        /\ \A j \in 1..Len(rcTopMatches) :
              \E w \in QueryTokens(query) :
                    /\ Length(w) >= 3
                    /\ includes(toLowerCase(rcTopMatches[j].content), w)
        /\ (\A w \in QueryTokens(query) : Length(w) < 3) => rcReturn = EmptyStr

\* a 3-character token selected a chunk while another chunk, which holds a
\* 2-character token of the same query, was not selected
C7_Witness ==
    /\ rcPc = "returned"
    /\ \E j \in 1..Len(rcTopMatches) :
          \E w \in QueryTokens(query) :
              Length(w) = 3 /\ includes(toLowerCase(rcTopMatches[j].content), w)
    /\ \E i \in 1..Len(knowledgeBase) :
          /\ knowledgeBase[i] \notin Range(rcTopMatches)
          /\ \E w \in QueryTokens(query) :
                Length(w) = 2 /\ includes(toLowerCase(knowledgeBase[i].content), w)

\* C8: with a non-empty knowledge base none of whose chunks contains a
\* keyword, the result is the empty string, the value returned for an empty
\* knowledge base.
C8_NoMatchEmptyString ==
    (/\ rcPc = "returned"
     /\ knowledgeBase # <<>>
     /\ Qualifying(knowledgeBase, query) = {}) =>
        /\ rcTopMatches = <<>>
        /\ rcReturn = EmptyStr

\* no chunk of a non-empty knowledge base matched a query that has a keyword
C8_Witness ==
    /\ rcPc = "returned"
    /\ knowledgeBase # <<>>
    /\ \E w \in QueryTokens(query) : Length(w) >= 3
    /\ Qualifying(knowledgeBase, query) = {}
    /\ rcReturn = EmptyStr

----------------------------------------------------------------------------
(* Claims about ingestPDFs *)

\* the source and content of the records the PDF entries of a directory give
\* when every readable, parsable document is chunked and the others are skipped
RECURSIVE ExpectedRecords(_)
ExpectedRecords(entries) ==
    IF entries = <<>> THEN <<>>
    ELSE LET e == Head(entries)
             cs == chunkText(e.text, DefaultMaxChunkSize)
         IN  (IF e.name.ext = "pdf" /\ e.status = "ok"
              THEN [i \in 1..Len(cs) |-> [source |-> e.name, content |-> cs[i]]]
              ELSE <<>>)
             \o ExpectedRecords(Tail(entries))

\* the PDF entries whose read or extraction fails, in directory order
FailingFiles(entries) ==
    LET bad == SelectSeq(entries, LAMBDA e : e.name.ext = "pdf" /\ e.status # "ok")
    IN  [i \in 1..Len(bad) |-> bad[i].name]

\* C9: whichever documents fail, a run that reaches the loop handles every
\* document and completes; the persisted store is the concatenation, in
\* processing order, of the records of the documents that did not fail, and
\* holds no record of a failed document.
C9_FailedDocumentsSkipped ==
    outcome = "complete" =>
        /\ errors = FailingFiles(dirEntries)
        /\ [i \in 1..Len(kbFile) |->
               [source |-> kbFile[i].source, content |-> kbFile[i].content]]
             = ExpectedRecords(dirEntries)
        /\ \A i \in 1..Len(kbFile) : kbFile[i].source \notin Range(errors)

\* a completed run in which a document failed and a later document left records
C9_Witness ==
    /\ outcome = "complete"
    /\ \E j \in 1..Len(errors) :
          \E i \in 1..Len(kbFile) : kbFile[i].source.base > errors[j].base

\* the number a string of decimal digits writes
DigitOf(c) == CHOOSE d \in 0..9 : DigitChars[d + 1] = c

RECURSIVE DecimalValueFrom(_, _)
DecimalValueFrom(s, acc) ==
    IF s = <<>> THEN acc
    ELSE LET r == Head(s)
         IN  DecimalValueFrom(IF r.n = 1 THEN Tail(s)
                              ELSE <<Run(r.c, r.n - 1)>> \o Tail(s),
                              acc * 10 + DigitOf(r.c))

\* s is the decimal numeral of n > 0, without leading zero
IsNumeralOf(s, n) ==
    /\ s # <<>>
    /\ \A i \in 1..Len(s) : s[i].c \in Range(DigitChars)
    /\ s[1].c # "0"
    /\ DecimalValueFrom(s, 0) = n

\* C10: after a completed run the ids of the persisted records are "1", "2",
\* ..., "N" in persisted order, whichever documents failed.
C10_IdsContiguousFromOne ==
    outcome = "complete" =>
        \A i \in 1..Len(kbFile) : IsNumeralOf(kbFile[i].id, i)

\* a completed run with a failed document that persisted ten or more records
C10_Witness ==
    /\ outcome = "complete"
    /\ errors # <<>>
    /\ Len(kbFile) >= 10

----------------------------------------------------------------------------
(* Claims about ingestPDFs, continued *)

\* C11: when the source directory does not exist, the run creates it and ends
\* there without an error: no document is listed or processed, and the
\* persisted knowledge base is not written, its previous content is unchanged.
C11_MissingDirectoryCreated ==
    [][(pc = "checkDir" /\ ~dirExists) =>
          /\ dirExists' /\ dirEntries' = <<>>
          /\ pc' = "idle" /\ outcome' = "dirCreated"
          /\ files' = <<>> /\ fileIdx' = 0 /\ ingKnowledgeBase' = <<>>
          /\ errors' = <<>>
          /\ nWrites' = 0
          /\ kbFile' = kbFile]_vars

\* a run has ended after creating the directory, over a store an earlier run
\* had left
C11_Witness ==
    /\ outcome = "dirCreated" /\ pc = "idle" /\ dirExists
    /\ kbFile = OldStore /\ kbFile # <<>>

----------------------------------------------------------------------------
(* Claims about chunkText, continued *)

LiesInOneChunk(piece, chunks) ==
    \E i \in 1..Len(chunks) : includes(chunks[i], Trim(piece))

\* C13: chunkText never splits a sentence or a small paragraph: every paragraph
\* no longer than maxChunkSize lies entirely inside one emitted chunk, and so
\* does every sentence of a longer paragraph, also a sentence that alone is
\* longer than maxChunkSize.
C13_NothingSplit ==
    ctPc = "returned" =>
        \A p \in Range(SplitParagraphs(ctText)) :
            IF Length(p) <= ctMax
            THEN Trim(p) # EmptyStr => LiesInOneChunk(p, ctChunks)
            ELSE \A sentence \in Range(SplitSentences(p)) :
                    Trim(sentence) # EmptyStr => LiesInOneChunk(sentence, ctChunks)

\* a paragraph was split at its sentences, one of them longer than the
\* maximum, and the chunk holding it exceeds the maximum
C13_Witness ==
    /\ ctPc = "returned" /\ Len(ctChunks) > 1
    /\ \E p \in Range(SplitParagraphs(ctText)) :
          /\ Length(p) > ctMax
          /\ \E s1, s2 \in Range(SplitSentences(p)) :
                /\ Length(s1) > ctMax /\ Length(s2) <= ctMax /\ Trim(s2) # EmptyStr
                /\ \E i \in 1..Len(ctChunks) :
                      includes(ctChunks[i], s1) /\ Length(ctChunks[i]) > ctMax

----------------------------------------------------------------------------
(* Claims about retrieveContext, continued *)

\* the scan of a retriever that leaves its loop as soon as it holds
\* MaxMatches qualifying chunks: the chunks it holds then
RECURSIVE ScanUntilFull(_, _, _, _)
ScanUntilFull(kb, q, i, found) ==
    IF i > Len(kb) \/ Len(found) = MaxMatches THEN found
    ELSE ScanUntilFull(kb, q, i + 1,
            IF HasMatch(toLowerCase(kb[i].content), Keywords(toLowerCase(q)))
            THEN Append(found, kb[i]) ELSE found)

\* what that retriever returns
EarlyStopRetrieve(kb, q) ==
    IF Len(kb) = 0 THEN EmptyStr
    ELSE join([i \in 1..Len(ScanUntilFull(kb, q, 1, <<>>)) |->
                  ScanUntilFull(kb, q, 1, <<>>)[i].content], TwoNewlines)

\* C14: a retriever that stops scanning as soon as it has collected 5
\* qualifying chunks returns, for every query and knowledge base, exactly the
\* string retrieveContext returns after scanning everything and truncating.
C14_EarlyStopEquivalent ==
    rcPc = "returned" => rcReturn = EarlyStopRetrieve(knowledgeBase, query)

\* more chunks qualify than are returned: the early stop leaves the loop
\* before the end of the knowledge base, whose last chunk qualifies
C14_Witness ==
    /\ rcPc = "returned" /\ Len(rcTopMatches) = MaxMatches
    /\ Len(ScanUntilFull(knowledgeBase, query, 1, <<>>)) = MaxMatches
    /\ Len(knowledgeBase) \in Qualifying(knowledgeBase, query)
    /\ knowledgeBase[Len(knowledgeBase)] \notin Range(rcTopMatches)
    /\ \E i, j \in 1..Len(rcTopMatches) :
          rcTopMatches[i].content # rcTopMatches[j].content

\* the chunks a retrieval over the knowledge base kb selects for the query q:
\* the first 5 qualifying ones
SelectedFrom(kb, q) ==
    LET Q == Qualifying(kb, q)
        m == IF Cardinality(Q) < 5 THEN Cardinality(Q) ELSE 5
    IN  [j \in 1..m |-> kb[Nth(Q, j)]]

\* C15: retrieval only reads the knowledge base: a call of retrieveContext
\* changes neither the imported chunks nor their order nor the persisted
\* store, and every call, also one made while or after a re-ingestion
\* replaces the persisted store, computes its result from one single version
\* of the store, never from a mix of old and new chunks.
C15_ReadOnlySingleVersion ==
    /\ [][(rcPc = "call" /\ rcPc' = "returned")
            => (knowledgeBase' = knowledgeBase /\ kbFile' = kbFile)]_vars
    /\ [](knowledgeBase \in Range(kbHistory))
    /\ [](rcPc = "returned" =>
            \E version \in Range(kbHistory) :
                /\ rcTopMatches = SelectedFrom(version, query)
                /\ rcReturn = BlankLineSeparated(
                                  [j \in 1..Len(SelectedFrom(version, query)) |->
                                      SelectedFrom(version, query)[j].content]))

\* a second call returned chunks of the imported version after a run of the
\* script had replaced the persisted store by another one
C15_Witness ==
    /\ rcPc = "returned" /\ rcCalls = 2
    /\ rcTopMatches # <<>>
    /\ Len(kbHistory) > 1
    /\ kbFile # <<>> /\ kbFile # knowledgeBase
    /\ Range(rcTopMatches) \cap Range(kbFile) = {}

----------------------------------------------------------------------------
(* Claims about ingestPDFs, continued *)

\* C16: a completed run replaces the knowledge base wholesale: the persisted
\* store then holds exactly the records this run generated, none of the
\* previous store, with ids starting again at 1, so that consecutive runs
\* over the same unchanged directory persist identical stores.
C16_StoreReplacedWholesale ==
    outcome = "complete" =>
        /\ kbFile = ingKnowledgeBase
        /\ \A i \in 1..Len(kbFile) : kbFile[i].source \in Range(files)
        /\ kbFile # <<>> => IsNumeralOf(kbFile[1].id, 1)
        /\ \A k \in 2..(Len(kbHistory) - 1) : kbHistory[k + 1] = kbHistory[k]

\* the second of two completed runs has written its records over a store
\* that an earlier run over other documents had left
C16_Witness ==
    /\ outcome = "complete" /\ runs = 2 /\ Len(kbHistory) = 3
    /\ kbHistory[1] = OldStore
    /\ Len(kbFile) > 1 /\ kbFile # OldStore

----------------------------------------------------------------------------
(* Claims about chunkText: the worked example *)

\* C17: for "Paragraph one.", a blank line, "Paragraph two is a bit longer
\* than usual for this test." and maxChunkSize 40, chunkText flushes
\* "Paragraph one." as a chunk of its own before it handles the second
\* paragraph, discards it in the length filter, and returns exactly one
\* chunk, which holds the second paragraph.
C17_TwoParagraphExample ==
    (ctPc = "returned" /\ ctText = TwoParagraphs /\ ctMax = 40) =>
        /\ Len(ctChunks) > 1
        /\ ctChunks[1] = ParagraphOne
        /\ ParagraphOne \notin Range(ctReturn)
        /\ Len(ctReturn) = 1
        /\ includes(ctReturn[1], ParagraphTwo)
        /\ ~includes(ctReturn[1], ParagraphOne)

\* the call on the example has returned
C17_Witness ==
    /\ ctPc = "returned" /\ ctText = TwoParagraphs /\ ctMax = 40
    /\ Length(ParagraphOne) = 14 /\ Length(ParagraphTwo) = 55
    /\ ctReturn = <<ParagraphTwo>>

----------------------------------------------------------------------------
(* Claims about retrieveContext: the worked example *)

\* C18: with the knowledge base of the two Vietnamese chunks (ids "1" and
\* "2") and the query "ky thi", retrieveContext selects both chunks and
\* returns the content of chunk 1, a blank line, then the content of chunk 2.
C18_VietnameseExample ==
    (rcPc = "returned" /\ knowledgeBase = ExampleKnowledgeBase
        /\ query \in ExampleQueries) =>
        /\ rcTopMatches = ExampleKnowledgeBase
        /\ rcReturn = Cat(Cat(ExampleChunkOne, <<Run("\n", 2)>>), ExampleChunkTwo)

\* the call on the example has returned, for the query whose first word has
\* two characters and is no keyword
C18_Witness ==
    /\ rcPc = "returned" /\ knowledgeBase = ExampleKnowledgeBase
    /\ query \in ExampleQueries /\ Length(query) = 6
    /\ Len(rcTopMatches) = 2
    /\ Length(rcReturn) = Length(ExampleChunkOne) + 2 + Length(ExampleChunkTwo)

----------------------------------------------------------------------------
(* Claims about retrieveContext: the query as a set of keywords *)

\* the whitespace-separated tokens of a query, in order, as they are typed
TokensOf(q) == Split(q, WhitespaceChars, 1)

OneSpace == <<Run(" ", 1)>>

\* queries with the same tokens as q: the tokens in every other order, one
\* token repeated at the end, white space added in front, behind, or
\* repeated between the tokens
QueryVariants(q) ==
    LET tokens == TokensOf(q)
        n == Len(tokens)
    IN  {join([i \in 1..n |-> tokens[order[i]]], OneSpace) :
                order \in Permutations(1..n)}
        \cup {join(Append(tokens, tokens[i]), OneSpace) : i \in 1..n}
        \cup {Cat(OneSpace, q), Cat(q, OneSpace), Cat(<<Run("\n", 1)>>, q),
              Cat(Cat(<<Run(" ", 2)>>, q), <<Run("\t", 1)>>),
              join(tokens, <<Run(" ", 2)>>),
              join(tokens, <<Run(" ", 1), Run("\n", 1)>>)}

\* C19: the result depends only on the set of query keywords: permuting the
\* whitespace-separated tokens of the query, repeating a token, or adding
\* leading, trailing or repeated white space leaves the returned string
\* unchanged, for every knowledge base.
C19_KeywordSetOnly ==
    rcPc = "returned" =>
        \A variant \in QueryVariants(query) :
            retrieveContext(knowledgeBase, variant) = rcReturn

\* the query has two different keywords, the first of which occurs in no
\* chunk, and chunks were returned for the second
C19_Witness ==
    /\ rcPc = "returned" /\ rcReturn # EmptyStr
    /\ Len(TokensOf(query)) > 1
    /\ LET first == toLowerCase(TokensOf(query)[1])
           last == toLowerCase(TokensOf(query)[Len(TokensOf(query))])
       IN  /\ Length(first) >= 3 /\ Length(last) >= 3 /\ first # last
           /\ \A i \in 1..Len(knowledgeBase) :
                 ~includes(toLowerCase(knowledgeBase[i].content), first)
           /\ \E i \in 1..Len(knowledgeBase) :
                 includes(toLowerCase(knowledgeBase[i].content), last)

----------------------------------------------------------------------------
(* Claims about retrieveContext: matching *)

\* the characters of a string, one by one
RECURSIVE Expand(_)
Expand(str) ==
    IF str = <<>> THEN <<>>
    ELSE [i \in 1..Head(str).n |-> Head(str).c] \o Expand(Tail(str))

\* the characters word occur, in this order and next to each other, somewhere
\* in the characters text
OccursIn(word, text) ==
    \E start \in 0..(Len(text) - Len(word)) :
        \A j \in 1..Len(word) : text[start + j] = word[j]

\* the chunk's content contains, whatever the case of the letters, a query
\* token of 3 or more characters, anywhere
QualifiesAnywhere(doc, q) ==
    \E w \in QueryTokens(q) :
        /\ Length(w) >= 3
        /\ OccursIn(Expand(w),
                    [i \in 1..Length(doc.content) |->
                        LowerChar(Expand(doc.content)[i])])

\* the other case of a letter
SwapChar(c) ==
    IF \E i \in 1..Len(UpperChars) : UpperChars[i] = c THEN LowerChar(c)
    ELSE IF \E i \in 1..Len(LowerChars) : LowerChars[i] = c
         THEN UpperChars[CHOOSE i \in 1..Len(LowerChars) : LowerChars[i] = c]
         ELSE c

UpperChar(c) == IF LowerChar(c) = c THEN SwapChar(c) ELSE c

\* a string with the case of its letters changed: all upper, all lower, each
\* letter swapped
CaseVariants(str) ==
    {Normalize([i \in 1..Len(str) |-> Run(UpperChar(str[i].c), str[i].n)]),
     Normalize([i \in 1..Len(str) |-> Run(LowerChar(str[i].c), str[i].n)]),
     Normalize([i \in 1..Len(str) |-> Run(SwapChar(str[i].c), str[i].n)])}

\* the knowledge bases that differ from kb in the case of the letters only
KbCaseVariants(kb) ==
    {[i \in 1..Len(kb) |-> [kb[i] EXCEPT !.content = variant[i]]] :
        variant \in {[i \in 1..Len(kb) |-> Normalize([k \in 1..Len(kb[i].content) |->
                        Run(UpperChar(kb[i].content[k].c), kb[i].content[k].n)])],
                     [i \in 1..Len(kb) |-> Normalize([k \in 1..Len(kb[i].content) |->
                        Run(LowerChar(kb[i].content[k].c), kb[i].content[k].n)])],
                     [i \in 1..Len(kb) |-> Normalize([k \in 1..Len(kb[i].content) |->
                        Run(SwapChar(kb[i].content[k].c), kb[i].content[k].n)])]}}

\* the ids of the chunks a call selects
SelectedIds(kb, q) ==
    [j \in 1..Len(TopMatches(MatchingDocs(kb, q))) |->
        TopMatches(MatchingDocs(kb, q))[j].id]

\* C20: keyword matching is a case-insensitive raw substring test without
\* word boundaries: a chunk qualifies exactly when its lower-cased content
\* contains some lower-cased keyword anywhere, also inside a longer word, and
\* changing the case of the letters of the query or of the chunk contents
\* never changes which chunks are selected.
C20_CaseInsensitiveSubstring ==
    (rcPc = "returned" /\ knowledgeBase # <<>>) =>
        /\ \A j \in 1..Len(rcTopMatches) : QualifiesAnywhere(rcTopMatches[j], query)
        /\ Len(rcTopMatches) < MaxMatches =>
              \A i \in 1..Len(knowledgeBase) :
                  QualifiesAnywhere(knowledgeBase[i], query)
                      => knowledgeBase[i] \in Range(rcTopMatches)
        /\ \A q \in CaseVariants(query) :
              SelectedIds(knowledgeBase, q)
                  = [j \in 1..Len(rcTopMatches) |-> rcTopMatches[j].id]
        /\ \A kb \in KbCaseVariants(knowledgeBase) :
              SelectedIds(kb, query)
                  = [j \in 1..Len(rcTopMatches) |-> rcTopMatches[j].id]

\* an upper-case query selected the chunks that hold its letters inside
\* longer words, in another case, and left out the chunk that does not
C20_Witness ==
    /\ rcPc = "returned" /\ knowledgeBase = WordKnowledgeBase
    /\ query = Str(<<"C", "A", "T">>)
    /\ [j \in 1..Len(rcTopMatches) |-> rcTopMatches[j].id]
          = <<ToDecimal(1), ToDecimal(2), ToDecimal(4)>>

----------------------------------------------------------------------------
(* Claims about ingestPDFs: the source of the records *)

\* the contents of the records of the store that carry the source name, in
\* the order of the store
ContentsOfSource(store, name) ==
    LET recs == SelectSeq(store, LAMBDA r : r.source = name)
    IN  [i \in 1..Len(recs) |-> recs[i].content]

\* the position of a file name in the processing order, 0 when it is not listed
FilePosition(name) ==
    IF \E k \in 1..Len(files) : files[k] = name
    THEN CHOOSE k \in 1..Len(files) : files[k] = name
    ELSE 0

\* C21: in the persisted knowledge base every record's source is the file
\* name of the document whose text produced that chunk; the records of one
\* document are contiguous and in the order chunkText returned them, and the
\* documents' groups appear in document-processing order.
C21_SourceTagsAndGrouping ==
    outcome = "complete" =>
        /\ \A i \in 1..Len(kbFile) :
              /\ FilePosition(kbFile[i].source) # 0
              /\ \E e \in Range(dirEntries) :
                    /\ e.name = kbFile[i].source
                    /\ e.status = "ok"
                    /\ ContentsOfSource(kbFile, e.name)
                          = chunkText(e.text, DefaultMaxChunkSize)
        /\ \A i, j \in 1..Len(kbFile) :
              i < j => FilePosition(kbFile[i].source) <= FilePosition(kbFile[j].source)
        /\ \A i, j, k \in 1..Len(kbFile) :
              (i < j /\ j < k /\ kbFile[i].source = kbFile[k].source)
                  => kbFile[j].source = kbFile[i].source

\* the store holds the records of two documents, several of the first one,
\* and a file between them left none
C21_Witness ==
    /\ outcome = "complete" /\ Len(kbFile) > 2
    /\ kbFile[1].source = kbFile[2].source
    /\ kbFile[1].source # kbFile[Len(kbFile)].source
    /\ FilePosition(kbFile[Len(kbFile)].source) > FilePosition(kbFile[1].source) + 1

----------------------------------------------------------------------------
(* Claims about the SSE route                                              *)

\* the first k characters of an answer
Prefix(answer, k) == Str(SubSeq(SplitChars(answer), 1, k))

\* the start event and the chunk events of the first k characters
StartAndChunks(answer, k, streamId) ==
    <<Event("start", EmptyStr, "", streamId)>>
        \o [i \in 1..k |-> Event("chunk", Prefix(answer, i), "", streamId)]

EventsOfType(type) == {i \in 1..Len(sseEvents) : sseEvents[i].type = type}

ErrorEvents == {i \in 1..Len(sseEvents) : sseEvents[i].error # ""}

\* the events sent so far are the ones the answer or the failure prescribes
RelaySequence ==
    /\ ssePc = "streaming" =>
          /\ sseEvents = StartAndChunks(sseBackend.response, sseIdx, sseRequest.streamId)
          /\ ~sseClosed
    /\ (ssePc = "closed" /\ sseBackend.kind = "ok") =>
          /\ sseEvents =
                StartAndChunks(sseBackend.response,
                               Len(SplitChars(sseBackend.response)),
                               sseRequest.streamId)
                    \o <<Event("end", sseBackend.response, "", sseRequest.streamId)>>
          /\ sseClosed
    /\ (ssePc = "closed" /\ sseBackend.kind # "ok") =>
          /\ Len(sseEvents) = 2
          /\ sseEvents[1] = Event("start", EmptyStr, "", sseRequest.streamId)
          /\ ErrorEvents = {2}
          /\ sseClosed
    /\ EventsOfType("end") = {} \/ ErrorEvents = {}

\* C22: for a backend answer of n characters the relay sends one start
\* event, n chunk events carrying the prefixes of length 1..n in order, one
\* end event carrying the whole answer, and closes; when the backend call
\* fails it sends the start event, one error event, and closes; no stream
\* carries both an end and an error event, nothing is sent after the close,
\* and a stream that has an answer is closed in the end.
C22_RelayEventSequence ==
    /\ []RelaySequence
    /\ [][sseClosed => (sseClosed' /\ sseEvents' = sseEvents)]_vars
    /\ (ssePc = "streaming") ~> (ssePc = "closed" /\ EventsOfType("end") # {})

C22_Witness ==
    /\ ssePc = "closed"
    /\ sseBackend.kind = "ok"
    /\ Len(sseBackend.response) = 2
    /\ Len(sseEvents) = MaxAnswerLength + 2

\* the body parses, messages is an array, and the array is empty or its last
\* message has no content
LastMessageInvalid(request) ==
    /\ request.json
    /\ request.messages.kind = "array"
    /\ \/ request.messages.items = <<>>
       \/ ~LastMessage(request.messages).defined
       \/ LastMessage(request.messages).content = EmptyStr

\* C28: a request whose messages array is empty, or whose last message has
\* no content, is answered with status 400 and the error "Invalid message
\* format"; no stream is opened and the backend is not called.
C28_InvalidMessageRejected ==
    (ssePc # "received" /\ LastMessageInvalid(sseRequest)) =>
        /\ sseStatus = 400
        /\ sseBody = "Invalid message format"
        /\ sseEvents = <<>>
        /\ sseBackendCalls = 0

----------------------------------------------------------------------------
(* Claims about generateResponse                                           *)

\* the model invocations and the delays of a call, at each of its positions
BoundedRetries ==
    /\ grCalls <= 4
    /\ grWaits = SubSeq(<<1000, 2000, 4000>>, 1, Len(grWaits))
    /\ grPc = "delay" => Len(grWaits) = grCalls
    /\ grPc = "attempt" => Len(grWaits) = grCalls
    /\ grPc = "returned" => (grCalls >= 1 /\ Len(grWaits) = grCalls - 1)

\* C23: a call of generateResponse returns; it invokes the model at most 4
\* times; the delays before the 1st, 2nd and 3rd retry are 1000, 2000 and
\* 4000 ms in that order, one delay between two attempts and none after the
\* last attempt.
C23_TerminatesWithinFourAttempts ==
    /\ []BoundedRetries
    /\ <>(grPc = "returned")

C23_Witness ==
    /\ grPc = "returned"
    /\ grCalls = 4
    /\ grWaits = <<1000, 2000, 4000>>

\* an error with status 429 or with a message that contains "429", "rate
\* limit" or "quota", the two words in any case
RateLimitError(error) ==
    \/ error.status = 429
    \/ /\ error.hasMessage
       /\ \/ OccursIn(<<"4", "2", "9">>, Expand(error.message))
          \/ OccursIn(<<"r", "a", "t", "e", " ", "l", "i", "m", "i", "t">>,
                      Expand(toLowerCase(error.message)))
          \/ OccursIn(<<"q", "u", "o", "t", "a">>, Expand(toLowerCase(error.message)))

\* what follows an attempt that ended in the error grError'
AfterFailedAttempt ==
    (grPc = "attempt" /\ grCalls' = grCalls + 1 /\ grReturn' # ModelText) =>
        IF ~RateLimitError(grError')
        THEN grPc' = "returned" /\ grReturn' = GenericApology
        ELSE IF grCalls' = 4
        THEN grPc' = "returned" /\ grReturn' = OverloadApology
        ELSE grPc' = "delay" /\ grReturn' = ""

\* C24: no exception leaves generateResponse, it returns the text of the
\* model or one of the two apologies; an attempt that fails with an error
\* that is no rate-limit error ends the call with the generic apology, one
\* that fails with a rate-limit error is retried, and on the 4th attempt
\* ends the call with the overload apology.
C24_OnlyRateLimitRetried ==
    /\ [](~grThrew /\ (grPc = "returned" =>
                          grReturn \in {ModelText, GenericApology, OverloadApology}))
    /\ [][AfterFailedAttempt]_vars

C24_Witness ==
    /\ grPc = "returned"
    /\ grCalls = 4
    /\ RateLimitError(grError)
    /\ grError.status # 429
    /\ grReturn = OverloadApology

----------------------------------------------------------------------------
(* Claims about the chat API handler                                       *)

\* the trimmed content of the last message of request i
KeyOf(i) == Trim(chRequests[i].request.content)

\* request j carries a message and arrived after request i, which has the
\* same trimmed content, had been answered with status 200
LaterSameMessage(i, j) ==
    /\ chRequests[j].request.kind = "message"
    /\ i \in chRequests[j].answeredBefore
    /\ KeyOf(i) = KeyOf(j)

\* request j was answered from the cache, without a retrieval or a model call
ServedFromCache(j) ==
    /\ chRequests[j].pc = "done"
    /\ chRequests[j].status = 200
    /\ chRequests[j].cached
    /\ chRequests[j].retrieveCalls = 0
    /\ chRequests[j].generateCalls = 0

Generated(i) ==
    /\ chRequests[i].pc = "done"
    /\ chRequests[i].status = 200
    /\ chRequests[i].generateCalls = 1

\* a request that missed the cache calls retrieveContext and generateResponse
\* itself, whatever other requests are in flight
NoSharedCall ==
    \A i \in 1..Len(chRequests) :
        /\ chRequests[i].pc = "retrieveContext" =>
              chRequests[i].retrieveCalls = 1 /\ chRequests[i].generateCalls = 0
        /\ chRequests[i].pc = "generateResponse" =>
              chRequests[i].retrieveCalls = 1 /\ chRequests[i].generateCalls = 1
        /\ Generated(i) => ~chRequests[i].cached

\* the step in which generateResponse resolves for request i
StoresOwnContent ==
    \A i \in 1..Len(chRequests) :
        (chRequests[i].pc = "generateResponse" /\ chRequests'[i].pc = "done") =>
            /\ chRequests'[i].status = 200
            /\ ~chRequests'[i].cached
            /\ chRequests'[i].content \in GeneratedContents
            /\ \E entry \in chCache' :
                  entry.key = KeyOf(i) /\ entry.content = chRequests'[i].content
            /\ \A entry \in chCache' :
                  entry.key = KeyOf(i) => entry.content = chRequests'[i].content

\* C26: requests in flight are not de-duplicated: every request that missed
\* the cache calls generateResponse itself and returns what it generated with
\* cached: false, also when the key was stored in the meantime, and the cache
\* then holds the content of the request that stored last.
C26_NoInFlightDeduplication ==
    /\ []NoSharedCall
    /\ [][StoresOwnContent]_vars

C26_Witness ==
    \E i \in 1..Len(chRequests) : \E j \in 1..Len(chRequests) :
        /\ i < j
        /\ KeyOf(i) = KeyOf(j)
        /\ Generated(i) /\ Generated(j)
        /\ i \notin chRequests[j].answeredBefore
        /\ chRequests[i].content # chRequests[j].content
        /\ CacheGet(chCache, KeyOf(i)) = chRequests[i].content

----------------------------------------------------------------------------
(* Claims about the PDF loader                                             *)

\* C27: in every interleaving of getPDFDocuments calls loadPDFDocuments is
\* called at most once; the callers that arrive during the load await its one
\* promise; all callers that have a result have the same array, the one that
\* is cached; and a caller that arrives after the load has resolved has the
\* cached array at once, also when the array is empty.
C27_LoadedOnce ==
    /\ pdLoadCalls <= 1
    /\ Len(pdPromises) = pdLoadCalls
    /\ pdCallers # <<>> => pdLoadCalls = 1
    /\ \A i \in 1..Len(pdCallers) :
          /\ pdCallers[i].promise \in {0, 1}
          /\ pdCallers[i].promise = 0 => pdCallers[i].received
          /\ pdCallers[i].received =>
                /\ ~cachedDocuments.isNull
                /\ pdCallers[i].value = cachedDocuments
                /\ pdCallers[i].value.id = 1
                /\ pdCallers[i].value.docs = loadPDFDocuments(pdDirectory)
    /\ ~cachedDocuments.isNull =>
          \A i \in 1..Len(pdCallers) :
              pdCallers[i].received \/ pdCallers[i].promise = 1

C27_Witness ==
    /\ Len(pdCallers) = MaxCallers
    /\ ~pdDirectory.exists
    /\ pdCallers[1].promise = 1 /\ pdCallers[2].promise = 1
    /\ pdCallers[MaxCallers].promise = 0
    /\ \A i \in 1..Len(pdCallers) :
          pdCallers[i].received /\ pdCallers[i].value.docs = <<>>

----------------------------------------------------------------------------
(* Claims about the chat client                                            *)

\* the call has ended, by a return or by a rejection of its promise
CallEnded == clPc \in {"returned", "rejected"}

\* the request failed inside the try block for a reason other than an abort
FailedWithoutAbort == clPc = "rejected" /\ ~clAborted

\* C29: a sendMessage call with non-blank content that has ended has reset
\* isThinking to false and thinkingConvId to null, whether the stream
\* completed, delivered an error event, the fetch or a read failed, or the
\* request was aborted; and when the request failed for a reason other than
\* an abort, an assistant error message is the last message of the
\* conversation.
C29_ThinkingAlwaysReset ==
    (CallEnded /\ Trim(clContent) # EmptyStr) =>
        /\ isThinking = FALSE
        /\ thinkingConvId = "null"
        /\ FailedWithoutAbort =>
              clMessages[Len(clMessages)] = ClientMessage("assistant", ErrorMessage, FALSE)

----------------------------------------------------------------------------
(* Claims about ingestPDFs: the write of the store *)

\* while the documents of a run are processed nothing has been written, and a
\* completed run has written once; when every document failed the store is
\* the empty list
WrittenOnce ==
    /\ pc = "loop" =>
          /\ files # <<>>
          /\ nWrites = 0
          /\ kbFile = kbHistory[Len(kbHistory)]
    /\ outcome = "complete" =>
          /\ files # <<>>
          /\ nWrites = 1
          /\ Len(errors) = Len(files) => kbFile = <<>>

\* a step that changes the store is the step after the last document, and
\* it writes the whole list of the run
WriteAfterLastDocument ==
    (kbFile' # kbFile \/ nWrites' # nWrites) =>
        \/ nWrites' = 0 /\ kbFile' = kbFile /\ pc = "idle"
        \/ /\ pc = "loop"
           /\ fileIdx = Len(files) + 1
           /\ nWrites = 0 /\ nWrites' = 1
           /\ kbFile' = ingKnowledgeBase
           /\ outcome' = "complete"

\* a run that processes documents stands at one of its documents or behind
\* the last one, every step of it moves to the next document or is the
\* write, and the write ends the run: the run reaches its one write after
\* Len(files) documents
ReachesWrite ==
    pc = "loop" => fileIdx \in 1..(Len(files) + 1)

LoopAdvances ==
    pc = "loop" =>
        \/ pc' = "loop" /\ fileIdx' = fileIdx + 1 /\ nWrites' = 0
        \/ pc' = "idle" /\ outcome' = "complete" /\ nWrites' = 1

\* C30: a run that found at least one PDF file writes the store exactly
\* once, in the step after its last document, with the whole list of the
\* run, which is the empty list when every document failed; nothing is
\* written while documents are processed, and the run does reach the write.
C30_SingleWriteAfterLastDocument ==
    /\ [](WrittenOnce /\ ReachesWrite)
    /\ [][WriteAfterLastDocument /\ LoopAdvances]_vars

\* a run in which every document failed has replaced an earlier store by the
\* empty list
C30_Witness ==
    /\ outcome = "complete"
    /\ Len(files) > 1
    /\ Len(errors) = Len(files)
    /\ kbHistory[1] = OldStore
    /\ nWrites = 1
    /\ kbFile = <<>>

====
